---- MODULE Spec2Model ----
(***************************************************************************)
(* A model of galac's entanglement engine: the content index               *)
(* (models/storages.py), the status classifier, the workspace scan and the *)
(* reference resolver (entanglement_management.py), and the two parsers    *)
(* (parsing/markdown.py, parsing/entangled.py), and the prep, apply and    *)
(* log commands (__main__.py) with the staging context they work on.       *)
(*                                                                         *)
(* Conventions.  Python list positions are 1-based here; indexof_file's    *)
(* None is 0 and indexof_entanglement's -1 is -1.  A class name that a     *)
(* module uses without importing it is read as the class of that name in   *)
(* models/entangled_entities.py.  A message of proto_gen is a record with  *)
(* the fields the code reads and writes and a repeated field is a list;    *)
(* a command that raises is recorded in cmdOut with the state it leaves.   *)
(***************************************************************************)
EXTENDS Integers, Sequences, FiniteSets, TLC

VARIABLES
    files,          \* FileIndex.serialized_index.files: Seq of File records
    entanglements,  \* EntanglementIndex.serialized_index.entanglements
    disk,           \* the workspace files: path -> [exists, bytes]
    ignore,         \* the paths matched by Config.ignore
    statusOut,      \* what the last get_status yielded, NoStatus after a change
    op,             \* the last operation that changed the index or the disk
    docs,           \* path -> the parsed Markdown document (marko's children)
    scan_pc,        \* where scan_new_workspace stands
    futures,        \* the submitted scan_file futures not yet collected
    cursor,         \* the reference pass: <<entanglement, reference>> position
    res_pc,         \* where the resolution of one block stands
    root,           \* the block whose tree is being resolved
    frames,         \* the resolve generators being consumed, innermost last
    seen,           \* the seen set of resolve_non_entangled_document
    out,            \* what the generators yielded so far, in traversal order
    log,            \* what the resolver logged
    counters,       \* [expansions, steps] of the running resolution
    rendered,       \* what EntangledDocument.entangled returned
    blockOut,       \* what get_block_status last returned, and for which file
    staging_context,\* the ChangeRecords being prepared
    staging_index,  \* ChangeIndex.ids, what `log` lists
    plans,          \* the preparation folders and saved contexts on disk
    pbin,           \* the index files of .intergalac, as last saved
    now,            \* the clock mytimestamp reads
    cmdOut,         \* how the last command ended
    choice,         \* the last Diff.chose_block: its arguments and its result
    tasks,          \* file -> where its scan_file task stands in the pool
    unreadable,     \* the paths os.access(path, R_OK) refuses
    call            \* the last call of a pure function: its name, input, result

idxVars  == <<files, entanglements, disk, ignore, statusOut, op>>
scanVars == <<docs, scan_pc, futures, cursor>>

resVars  == <<res_pc, root, frames, seen, out, log, counters, rendered>>

blkVars  == <<blockOut>>
stageVars == <<staging_context, staging_index, plans, pbin, now, cmdOut>>

diffVars == <<choice>>
poolVars == <<tasks>>
permVars == <<unreadable>>
callVars == <<call>>

vars == <<idxVars, scanVars, resVars, blkVars, stageVars, diffVars, poolVars,
         permVars, callVars>>

-----------------------------------------------------------------------------
(* Bounds of the model *)

MaxFiles == 2        \* File records kept in the index
MaxEnts  == 2        \* Entanglement records kept in the index
MaxScanEnts == 4     \* Entanglement records a workspace scan may append
MaxExpansions == 4   \* block expansions one resolution may make

-----------------------------------------------------------------------------
(* The workspace: paths, targets and file contents *)

Paths == {"a.md", "d/b.md"}
Dirs  == {".", "d"}
Targets == Paths \cup Dirs

\* The order in which Path.glob lists the files.
PathOrder == <<"a.md", "d/b.md">>

\* Path.is_relative_to: the tracked or discovered paths below a target.
Under(t) ==
    CASE t = "."  -> Paths
      [] t = "d"  -> {"d/b.md"}
      [] OTHER    -> {t}

\* File contents as byte strings; CR and LF are the two newline bytes.
Contents == { <<"x">>, <<"x", "CR", "LF", "y">> }

Missing == [exists |-> FALSE, bytes |-> <<>>]
OnDisk(c) == [exists |-> TRUE, bytes |-> c]

-----------------------------------------------------------------------------
(* utils.just_read and FileIndex.get_file_hash *)

\* open(path, "r").read(): text mode translates "\r\n" and "\r" to "\n".
RECURSIVE just_read(_)
just_read(bytes) ==
    IF bytes = <<>> THEN <<>>
    ELSE IF Head(bytes) = "CR"
         THEN IF Len(bytes) >= 2 /\ bytes[2] = "LF"
              THEN <<"LF">> \o just_read(Tail(Tail(bytes)))
              ELSE <<"LF">> \o just_read(Tail(bytes))
         ELSE <<Head(bytes)>> \o just_read(Tail(bytes))

\* xxhash.xxh64(data).hexdigest(): a digest names exactly the data it was
\* computed from (no collisions, and a digest is never equal to a content).
xxh64(data) == [kind |-> "hexdigest", of |-> data]

\* A Python str stored where a digest is expected.
PyStr(text) == [kind |-> "str", of |-> text]

NoStatus == [target |-> "none", result |-> <<>>]

\* get_file_hash(str): the digest of the encoded text
\* get_file_hash(Path): the digest of the raw bytes
get_file_hash_str(text)  == xxh64(text)
get_file_hash_path(file) == xxh64(disk[file].bytes)

\* os.access(file, R_OK)
is_readable(file) == disk[file].exists /\ file \notin unreadable

-----------------------------------------------------------------------------
(* FileIndex *)

indexof_file(fs, file) ==
    IF \E i \in 1..Len(fs) : fs[i].filename = file
    THEN CHOOSE i \in 1..Len(fs) :
            /\ fs[i].filename = file
            /\ \A j \in 1..(i-1) : fs[j].filename # file
    ELSE 0

RemoveAt(s, i) == SubSeq(s, 1, i-1) \o SubSeq(s, i+1, Len(s))

\* add_file: an unreadable file raises; a present key is logged, and the
\* record is appended all the same.
add_file_result(fs, file) ==
    Append(fs, [filename  |-> file,
                fast_hash |-> get_file_hash_str(just_read(disk[file].bytes))])

add_file(file) ==
    /\ is_readable(file)
    /\ Len(files) < MaxFiles
    /\ files' = add_file_result(files, file)
    /\ op' = [name |-> "add_file", arg |-> file]
    /\ statusOut' = NoStatus
    /\ UNCHANGED <<entanglements, disk, ignore, scanVars, resVars, blkVars, stageVars, diffVars, permVars, callVars, poolVars>>

\* remove_file: pops the first record of that name, raises when there is none.
remove_file(file) ==
    /\ indexof_file(files, file) # 0
    /\ files' = RemoveAt(files, indexof_file(files, file))
    /\ op' = [name |-> "remove_file", arg |-> file]
    /\ statusOut' = NoStatus
    /\ UNCHANGED <<entanglements, disk, ignore, scanVars, resVars, blkVars, stageVars, diffVars, permVars, callVars, poolVars>>

\* update_file: stores the text of the file in fast_hash (not its digest);
\* raises when the record or the file is missing.
update_file_result(fs, file) ==
    [fs EXCEPT ![indexof_file(fs, file)].fast_hash =
                                        PyStr(just_read(disk[file].bytes))]

update_file(file) ==
    /\ indexof_file(files, file) # 0
    /\ disk[file].exists
    /\ files' = update_file_result(files, file)
    /\ op' = [name |-> "update_file", arg |-> file]
    /\ statusOut' = NoStatus
    /\ UNCHANGED <<entanglements, disk, ignore, scanVars, resVars, blkVars, stageVars, diffVars, permVars, callVars, poolVars>>

-----------------------------------------------------------------------------
(* EntanglementIndex *)

\* A key handed to indexof_entanglement: a name, or (as add_entanglement and
\* remove_entanglement do) a whole Entanglement message.
ByName(n)   == [key |-> "name", name |-> n]
ByMessage(e) == [key |-> "message", name |-> e.name]

\* pb_entanglement.definition.name == entanglement_name: a str never equals
\* an Entanglement message, so a message key matches no record.
NameEquals(pb_name, k) == k.key = "name" /\ pb_name = k.name

indexof_entanglement(es, k) ==
    IF \E i \in 1..Len(es) : NameEquals(es[i].name, k)
    THEN CHOOSE i \in 1..Len(es) :
            /\ NameEquals(es[i].name, k)
            /\ \A j \in 1..(i-1) : ~NameEquals(es[j].name, k)
    ELSE -1

get_entanglement(es, index) == es[index]

add_entanglement_result(es, e) ==
    IF indexof_entanglement(es, ByMessage(e)) # -1 THEN es ELSE Append(es, e)

\* remove_entanglement: "index is not None" holds for -1 too, and pop(-1)
\* takes the last record; pop on an empty list raises.
remove_entanglement_result(es, e) ==
    LET index == indexof_entanglement(es, ByMessage(e))
    IN  IF index = -1 THEN SubSeq(es, 1, Len(es) - 1) ELSE RemoveAt(es, index)

Reference(name, indent) == [reference |-> name, indent |-> indent]

Entanglement(name, file, target, indirect, code, refs) ==
    [name                 |-> name,
     file                 |-> file,
     target_file          |-> target,
     indirect_target_file |-> indirect,
     hash                 |-> xxh64(code),
     references_to        |-> refs,
     referenced_by        |-> <<>>]

\* The messages the index operations are tried with.
StoreEntanglements ==
    { Entanglement(n, "a.md", "", "", <<"x">>, <<>>) : n \in {"A", "B"} }

add_entanglement(e) ==
    /\ Len(entanglements) < MaxEnts
    /\ entanglements' = add_entanglement_result(entanglements, e)
    /\ op' = [name |-> "add_entanglement", arg |-> e.name]
    /\ statusOut' = NoStatus
    /\ UNCHANGED <<files, disk, ignore, scanVars, resVars, blkVars, stageVars, diffVars, permVars, callVars, poolVars>>

remove_entanglement(e) ==
    /\ entanglements # <<>>
    /\ entanglements' = remove_entanglement_result(entanglements, e)
    /\ op' = [name |-> "remove_entanglement", arg |-> e.name]
    /\ statusOut' = NoStatus
    /\ UNCHANGED <<files, disk, ignore, scanVars, resVars, blkVars, stageVars, diffVars, permVars, callVars, poolVars>>

-----------------------------------------------------------------------------
(* The workspace changing under the index *)

write_file(file, c) ==
    /\ disk[file] # OnDisk(c)
    /\ disk' = [disk EXCEPT ![file] = OnDisk(c)]
    /\ op' = [name |-> "write", arg |-> file]
    /\ statusOut' = NoStatus
    /\ UNCHANGED <<files, entanglements, ignore, scanVars, resVars, blkVars, stageVars, diffVars, permVars, callVars, poolVars>>

unlink_file(file) ==
    /\ disk[file].exists
    /\ disk' = [disk EXCEPT ![file] = Missing]
    /\ op' = [name |-> "unlink", arg |-> file]
    /\ statusOut' = NoStatus
    /\ UNCHANGED <<files, entanglements, ignore, scanVars, resVars, blkVars, stageVars, diffVars, permVars, callVars, poolVars>>

\* The ignore list of config.toml is edited.
IgnoreChoices == { {}, {"d/b.md"} }

set_ignore(S) ==
    /\ ignore # S
    /\ ignore' = S
    /\ op' = [name |-> "config", arg |-> "ignore"]
    /\ statusOut' = NoStatus
    /\ UNCHANGED <<files, entanglements, disk, scanVars, resVars, blkVars, stageVars, diffVars, permVars, callVars, poolVars>>

-----------------------------------------------------------------------------
(* Intergalactangled.get_target_files and get_status *)

is_ignored(path) == path \in ignore

is_file(path) == path \in Paths /\ disk[path].exists

\* base_path itself when it is a file, then what base_path.glob("**/*") lists.
get_target_files(base_path) ==
    LET self_part == IF is_file(base_path) /\ ~is_ignored(base_path)
                     THEN <<base_path>> ELSE <<>>
        Listed(p) == /\ base_path \in Dirs
                     /\ p \in Under(base_path)
                     /\ ~is_ignored(p)
                     /\ is_file(p)
    IN  self_part \o SelectSeq(PathOrder, Listed)

DiffedFile(filename, status) == [filename |-> filename, status |-> status]

\* The position in indexed_files of the first record of that path, 0 if none.
first_match(indexed, file) == indexof_file(indexed, file)

\* One round of the loop over the discovered files.
status_of_found(f, file) ==
    IF f.fast_hash = get_file_hash_path(file) THEN "unchanged" ELSE "modified"

RECURSIVE status_loop(_, _)
status_loop(found_files, indexed_files) ==
    IF found_files = <<>>
    THEN [ i \in 1..Len(indexed_files) |->
             DiffedFile(indexed_files[i].filename, "deleted") ]
    ELSE LET file == Head(found_files)
             i    == first_match(indexed_files, file)
         IN  IF i # 0
             THEN <<DiffedFile(file, status_of_found(indexed_files[i], file))>>
                  \o status_loop(Tail(found_files), RemoveAt(indexed_files, i))
             ELSE <<DiffedFile(file, "created")>>
                  \o status_loop(Tail(found_files), indexed_files)

indexed_under(target) ==
    LET Same(f)  == f.filename = target
        Below(f) == f.filename \in Under(target)
    IN  IF is_file(target) THEN SelectSeq(files, Same)
                           ELSE SelectSeq(files, Below)

get_status_result(target) ==
    status_loop(get_target_files(target), indexed_under(target))

get_status(target) ==
    /\ statusOut' = [target |-> target, result |-> get_status_result(target)]
    /\ statusOut' # statusOut
    /\ UNCHANGED <<files, entanglements, disk, ignore, op, scanVars, resVars, blkVars, stageVars, diffVars, permVars, callVars, poolVars>>

-----------------------------------------------------------------------------
(* models/entangled_entities.py: the document tree *)

\* A str child of a RawCodeBlock.
Str(text) == [type |-> "str", text |-> text]

RawCodeBlock(children) == [type |-> "RawCodeBlock", children |-> children]

NonEntangledCodeBlock(ref_name, indent) ==
    [type     |-> "NonEntangledCodeBlock",
     ref_name |-> ref_name,
     source   |-> "",
     indent   |-> indent,
     children |-> <<>>]

EntangledCodeBlock(ref_name, source, indent, children) ==
    [type     |-> "EntangledCodeBlock",
     ref_name |-> ref_name,
     source   |-> source,
     indent   |-> indent,
     children |-> children]

\* class NonEntangledCodeBlock(EntangledCodeBlock), class
\* EntangledCodeBlock(EntangledDocument), class RawCodeBlock(EntangledDocument)
Bases(type) ==
    CASE type = "NonEntangledCodeBlock" ->
            {"NonEntangledCodeBlock", "EntangledCodeBlock", "EntangledDocument"}
      [] type = "EntangledCodeBlock" ->
            {"EntangledCodeBlock", "EntangledDocument"}
      [] type = "RawCodeBlock" -> {"RawCodeBlock", "EntangledDocument"}
      [] type = "EntangledDocument" -> {"EntangledDocument"}
      [] OTHER -> {type}

isinstance(node, class) == class \in Bases(node.type)

-----------------------------------------------------------------------------
(* parsing/markdown.py: NowebBloodhound *)

\* The lines of a code block.  A RefLine is a line that matches
\* NOWEB_REFERENCE, "<<ref_name>>" after `indent` blanks; a TextLine is any
\* other line.
TextLine(text)            == [kind |-> "text", text |-> text]
RefLine(ref_name, indent) == [kind |-> "ref", ref_name |-> ref_name,
                              indent |-> indent]

LineText(line) ==
    IF line.kind = "text" THEN line.text ELSE "<<" \o line.ref_name \o ">>"

\* The state of a NowebBloodhound: the children of self.document, whether
\* current_parent is the document or the RawCodeBlock that is its last child,
\* and noweb_references.
NowebStart == [children |-> <<>>, current |-> "EntangledDocument",
               noweb_references |-> <<>>, line_number |-> 0]

AppendToLast(children, item) ==
    [children EXCEPT ![Len(children)].children = Append(@, item)]

\* on_noweb_reference: the new block goes to the document while no raw line
\* was read, and into the open RawCodeBlock afterwards.
on_noweb_reference(st, line) ==
    LET entangled_block == NonEntangledCodeBlock(line.ref_name, line.indent)
        refs == Append(st.noweb_references,
                       Reference(line.ref_name, line.indent))
    IN  IF st.current = "EntangledDocument"
        THEN [st EXCEPT !.noweb_references = refs,
                        !.children = Append(@, entangled_block)]
        ELSE [st EXCEPT !.noweb_references = refs,
                        !.children = AppendToLast(@, entangled_block)]

\* get_line: opens the RawCodeBlock at the first raw line, then appends.
get_line(st, line) ==
    LET opened == IF st.current = "EntangledDocument"
                  THEN [st EXCEPT !.children = Append(@, RawCodeBlock(<<>>)),
                                  !.current = "RawCodeBlock"]
                  ELSE st
    IN  [opened EXCEPT !.children = AppendToLast(@, Str(LineText(line)))]

\* One line through the rules in their order: on_line counts it, a match of
\* on_noweb_reference ends the line, get_line takes the rest.
noweb_rules(st, line) ==
    LET counted == [st EXCEPT !.line_number = @ + 1]
    IN  IF line.kind = "ref" THEN on_noweb_reference(counted, line)
                             ELSE get_line(counted, line)

RECURSIVE noweb_fold(_, _)
noweb_fold(st, code) ==
    IF code = <<>> THEN st
    ELSE noweb_fold(noweb_rules(st, Head(code)), Tail(code))

noweb_run(code) == noweb_fold(NowebStart, code)

-----------------------------------------------------------------------------
(* parsing/markdown.py: MarkdownExtra and MarkdownDocumentParser *)

\* The tokens of the text after the opening fence: key=value, #id or a flag.
KV(key, value) == [tok |-> "kv", key |-> key, value |-> value]
Id(name)       == [tok |-> "attr", key |-> "id", value |-> name]
Flag(name)     == [tok |-> "attr", key |-> name, value |-> "True"]

\* MarkdownExtra.__init__: the dict built from the tokens, later ones win.
RECURSIVE markdown_extra(_, _)
markdown_extra(data, tokens) ==
    IF tokens = <<>> THEN data
    ELSE LET t == Head(tokens)
         IN  markdown_extra(
                 [k \in DOMAIN data \cup {t.key} |->
                     IF k = t.key THEN t.value ELSE data[k]],
                 Tail(tokens))

MarkdownExtra(tokens) == markdown_extra([k \in {} |-> ""], tokens)

\* dict.get with None (and False) written "".
extra_get(data, key) == IF key \in DOMAIN data THEN data[key] ELSE ""
get_id(data)          == extra_get(data, "id")
get_target_file(data) == extra_get(data, "file")
extra_ignore(data) ==
    extra_get(data, "ignore-markdown") # "" \/ extra_get(data, "ignore") # ""

FencedCode(lang, tokens, code) ==
    [type |-> "FencedCode", lang |-> lang, extra |-> tokens,
     children |-> <<code>>]
Paragraph == [type |-> "Paragraph"]

entanglement_filter(node) ==
    /\ node.type = "FencedCode"
    /\ LET extra == MarkdownExtra(node.extra)
       IN  /\ ~extra_ignore(extra)
           /\ get_id(extra) # "" \/ get_target_file(extra) # ""
    /\ Len(node.children) > 0

\* str.rstrip() of the code: the blank lines at its end go.
RECURSIVE rstrip(_)
rstrip(code) ==
    IF code # <<>> /\ code[Len(code)] = TextLine("")
    THEN rstrip(SubSeq(code, 1, Len(code) - 1))
    ELSE code

ParsedEntanglementBlock(index, entanglement, kind) ==
    [index |-> index, entanglement |-> entanglement, kind |-> kind]

\* A get_entanglements in which a later definition of a name replaces the
\* earlier one.  It is not the code: it is what "the first definition wins"
\* is measured against.
get_entanglements_step_last_wins(st, document, node_index, node) ==
    IF ~entanglement_filter(node) THEN st
    ELSE
    LET extra == MarkdownExtra(node.extra)
        code  == rstrip(node.children[1])
        name  == IF get_target_file(extra) # "" THEN get_target_file(extra)
                                               ELSE get_id(extra)
        noweb_parser == noweb_run(code)
        entanglement ==
            Entanglement(name, document, get_target_file(extra), "", code,
                         noweb_parser.noweb_references)
        Others(y) == y.entanglement.name # name
    IN  [yielded |-> Append(SelectSeq(st.yielded, Others),
                            ParsedEntanglementBlock(node_index, entanglement,
                                                    "Markdown")),
         blocks  |-> [n \in DOMAIN st.blocks \cup {name} |->
                        IF n = name THEN noweb_parser.children
                                    ELSE st.blocks[n]]]

\* One element of the document in get_entanglements.  `st` holds what was
\* yielded so far and self.non_entangled_code_blocks.
get_entanglements_step(st, document, node_index, node) ==
    IF ~entanglement_filter(node) THEN st
    ELSE
    LET extra == MarkdownExtra(node.extra)
        code  == rstrip(node.children[1])
        name  == IF get_target_file(extra) # "" THEN get_target_file(extra)
                                               ELSE get_id(extra)
        noweb_parser == noweb_run(code)
        entanglement ==
            Entanglement(name, document, get_target_file(extra), "", code,
                         noweb_parser.noweb_references)
    IN  IF name \in DOMAIN st.blocks THEN st
        ELSE [yielded |-> Append(st.yielded,
                            ParsedEntanglementBlock(node_index, entanglement,
                                                    "Markdown")),
              blocks  |-> [n \in DOMAIN st.blocks \cup {name} |->
                            IF n = name THEN noweb_parser.children
                                        ELSE st.blocks[n]]]

RECURSIVE get_entanglements_from(_, _, _, _)
get_entanglements_from(st, document, parsed_document, node_index) ==
    IF node_index > Len(parsed_document) THEN st
    ELSE get_entanglements_from(
            get_entanglements_step(st, document, node_index,
                                   parsed_document[node_index]),
            document, parsed_document, node_index + 1)

NoBlocks == [n \in {} |-> <<>>]

\* get_entanglements on a parser whose non_entangled_code_blocks is `blocks`.
get_entanglements(document, parsed_document, blocks) ==
    get_entanglements_from([yielded |-> <<>>, blocks |-> blocks],
                           document, parsed_document, 1)

-----------------------------------------------------------------------------
(* Intergalactangled.scan_new_workspace and update_workspace_references *)

\* scan_file on a freshly parsed document.
scan_file(document) ==
    get_entanglements(document, docs[document], NoBlocks).yielded

RECURSIVE add_all(_, _)
add_all(es, blocks) ==
    IF blocks = <<>> THEN es
    ELSE add_all(add_entanglement_result(es, Head(blocks).entanglement),
                 Tail(blocks))

RECURSIVE add_files(_, _)
add_files(fs, found) ==
    IF found = <<>> THEN fs
    ELSE add_files(add_file_result(fs, Head(found)), Tail(found))

\* The first loop up to the file add_file refuses: the files before it are
\* indexed and submitted, and FileIndexException leaves the loop and
\* scan_new_workspace.
RECURSIVE scan_first_loop(_, _, _)
scan_first_loop(fs, submitted, found) ==
    IF found = <<>>
    THEN [files |-> fs, submitted |-> submitted, raised |-> ""]
    ELSE IF ~is_readable(Head(found))
    THEN [files |-> fs, submitted |-> submitted,
          raised |-> "FileIndexException"]
    ELSE scan_first_loop(add_file_result(fs, Head(found)),
                         submitted \cup {Head(found)}, Tail(found))

\* The first loop: every target file is added to the file index and its
\* scan_file is submitted.
scan_submit ==
    /\ scan_pc = "start"
    /\ LET r == scan_first_loop(files, {}, get_target_files("."))
       IN  /\ files' = r.files
           /\ futures' = r.submitted
           /\ scan_pc' = IF r.raised # "" THEN "raised" ELSE "collect"
    /\ UNCHANGED <<entanglements, disk, ignore, statusOut, op, docs, cursor, resVars, blkVars, stageVars, diffVars, permVars, callVars, poolVars>>

\* as_completed: the futures are collected in any order; the blocks of one
\* future are added in document order.
scan_collect(f) ==
    /\ scan_pc = "collect"
    /\ f \in futures
    /\ entanglements' = add_all(entanglements, scan_file(f))
    /\ futures' = futures \ {f}
    /\ scan_pc' = IF futures' = {} THEN "refs" ELSE "collect"
    /\ UNCHANGED <<files, disk, ignore, statusOut, op, docs, cursor, resVars, blkVars, stageVars, diffVars, permVars, callVars, poolVars>>

\* One round of the loops of the reference pass.  The outer loop walks the
\* live list, so a record appended by the pass is visited too.
scan_reference_result(es, i, j) ==
    LET entanglement == es[i]
        referencer   == entanglement.references_to[j]
        referencee   == indexof_entanglement(es, ByName(referencer.reference))
    IN  IF referencee = -1
        THEN add_entanglement_result(es, entanglement)
        ELSE [es EXCEPT ![referencee].referenced_by = Append(@, referencer)]

scan_references ==
    /\ scan_pc = "refs"
    /\ LET i == cursor[1]
           j == cursor[2]
       IN  IF i > Len(entanglements)
           THEN /\ scan_pc' = "done"
                /\ UNCHANGED <<entanglements, cursor>>
           ELSE IF j > Len(entanglements[i].references_to)
           THEN /\ cursor' = <<i + 1, 1>>
                /\ UNCHANGED <<entanglements, scan_pc>>
           ELSE /\ entanglements' = scan_reference_result(entanglements, i, j)
                /\ Len(entanglements') <= MaxScanEnts
                /\ cursor' = <<i, j + 1>>
                /\ UNCHANGED scan_pc
    /\ UNCHANGED <<files, disk, ignore, statusOut, op, docs, futures, resVars, blkVars, stageVars, diffVars, permVars, callVars, poolVars>>

\* update_workspace_references: get_status(relative_root / "**/*") names no
\* directory and no tracked file, so it yields nothing, nothing is submitted
\* and the index stays as it is.
GlobTarget == "**/*"

update_workspace_references ==
    /\ scan_pc = "done"
    /\ get_status_result(GlobTarget) = <<>>
    /\ scan_pc' = "recomputed"
    /\ UNCHANGED <<idxVars, docs, futures, cursor, resVars, blkVars, stageVars, diffVars, permVars, callVars, poolVars>>

-----------------------------------------------------------------------------
(* The index and the status classifier *)

ScanIdle ==
    /\ docs = [p \in Paths |-> <<>>]
    /\ scan_pc = "idle"
    /\ futures = {}
    /\ cursor = <<1, 1>>

ResIdle ==
    /\ res_pc = "idle"
    /\ root = [document |-> "", name |-> ""]
    /\ frames = <<>>
    /\ seen = {}
    /\ out = <<>>
    /\ log = <<>>
    /\ counters = [expansions |-> 0, steps |-> 0]
    /\ rendered = [kind |-> "none"]

NoBlockStatus == [file |-> "", yielded |-> <<>>, deleted |-> {}, raised |-> ""]

BlkIdle == blockOut = NoBlockStatus

\* ChangeRecords(): an empty message.
NoHash == [kind |-> "unset", of |-> 0]

ChangeRecords ==
    [id |-> [hash |-> NoHash, preparation_time |-> 0, description |-> ""],
     records |-> <<>>, files_to_index |-> <<>>, files_to_unindex |-> <<>>]

\* How a command ended: what it raised, the preparation context apply
\* picked and the patches it logged as applied, and what log listed.
NoCommand ==
    [name |-> "", raised |-> "", picked |-> 0, applied |-> <<>>,
     listed |-> <<>>]
Command(name, raised) == [NoCommand EXCEPT !.name = name, !.raised = raised]

\* No pure function was called yet.
NoCall == [name |-> "", input |-> <<>>, result |-> <<>>]

\* No block was chosen yet, and no task was handed to the pool.
NoChoice == [action_prompt |-> "", base_block |-> <<>>,
             secondary_block |-> <<>>, merged |-> <<>>,
             returned |-> "", value |-> <<>>, raised |-> ""]
NoTasks == [p \in Paths |-> "none"]

\* file_index.pbin, entanglement_index.pbin and staging_index.pbin as
\* create_workspace touches them.
NothingSaved ==
    [file_index |-> <<>>, entanglement_index |-> <<>>, staging_index |-> <<>>]

\* Nothing staged, chosen or submitted; `unreadable` and `call` are left open.
StagingIdle ==
    /\ staging_context = ChangeRecords
    /\ staging_index = <<>>
    /\ plans = {}
    /\ pbin = NothingSaved
    /\ choice = NoChoice
    /\ tasks = NoTasks
    /\ now = 1
    /\ cmdOut = NoCommand

StageIdle ==
    /\ StagingIdle
    /\ unreadable = {}
    /\ call = NoCall

Init ==
    /\ ScanIdle
    /\ ResIdle
    /\ BlkIdle
    /\ StageIdle
    /\ files = <<>>
    /\ entanglements = <<>>
    /\ disk \in [Paths -> {Missing} \cup { OnDisk(c) : c \in Contents }]
    /\ ignore = {}
    /\ statusOut = NoStatus
    /\ op = [name |-> "init", arg |-> ""]

Next ==
    \/ \E p \in Paths : add_file(p)
    \/ \E p \in Paths : remove_file(p)
    \/ \E p \in Paths : update_file(p)
    \/ \E p \in Paths, c \in Contents : write_file(p, c)
    \/ \E p \in Paths : unlink_file(p)
    \/ \E S \in IgnoreChoices : set_ignore(S)
    \/ \E t \in Targets : get_status(t)

Spec == Init /\ [][Next]_vars

-----------------------------------------------------------------------------
(* The two keyed stores alone *)

InitStore ==
    /\ ScanIdle
    /\ ResIdle
    /\ BlkIdle
    /\ StageIdle
    /\ files = <<>>
    /\ entanglements = <<>>
    /\ disk = [p \in Paths |-> OnDisk(<<"x">>)]
    /\ ignore = {}
    /\ statusOut = NoStatus
    /\ op = [name |-> "init", arg |-> ""]

NextStore ==
    \/ \E p \in Paths : add_file(p)
    \/ \E p \in Paths : remove_file(p)
    \/ \E p \in Paths : update_file(p)
    \/ \E e \in StoreEntanglements : add_entanglement(e)
    \/ \E e \in StoreEntanglements : remove_entanglement(e)

SpecStore == InitStore /\ [][NextStore]_vars

-----------------------------------------------------------------------------
(* Claims about the content index and the status classifier *)

UniqueFileKeys ==
    \A i, j \in 1..Len(files) : files[i].filename = files[j].filename => i = j

UniqueBlockKeys ==
    \A i, j \in 1..Len(entanglements) :
        entanglements[i].name = entanglements[j].name => i = j

HasBlock(es, n) == \E i \in 1..Len(es) : es[i].name = n

\* C1: after any sequence of add/update/remove operations no two File records
\* share a path and no two NamedBlock records share a name, and an add whose
\* key is already present leaves the store as it was.
C1_UniqueKeysIdempotentAdd ==
    [][ /\ UniqueFileKeys'
        /\ UniqueBlockKeys'
        /\ (op'.name = "add_file" /\ indexof_file(files, op'.arg) # 0)
              => files' = files
        /\ (op'.name = "add_entanglement" /\ HasBlock(entanglements, op'.arg))
              => entanglements' = entanglements ]_vars

Tracked(p)    == indexof_file(files, p) # 0
Recorded(p)   == files[indexof_file(files, p)].fast_hash
Discovered(p) == is_file(p) /\ ~is_ignored(p)

Entries(r, p) == { i \in 1..Len(r) : r[i].filename = p }
Reported(r, p, s) == \E i \in Entries(r, p) : r[i].status = s

Statuses == {"unchanged", "modified", "created", "deleted"}

\* C8: get_status(target) yields every path that is tracked or discovered
\* under target exactly once, with exactly one of the four statuses.
C8_StatusExhaustiveExclusive ==
    statusOut # NoStatus =>
        LET t == statusOut.target
            r == statusOut.result
        IN  /\ \A p \in Under(t) :
                 (Tracked(p) \/ Discovered(p)) => Cardinality(Entries(r, p)) = 1
            /\ \A i \in 1..Len(r) :
                 /\ r[i].status \in Statuses
                 /\ r[i].filename \in Under(t)
                 /\ Tracked(r[i].filename) \/ Discovered(r[i].filename)

\* C9: for a path in the scope of the call, Unchanged iff tracked and the
\* hash of the current content equals the recorded fast_hash, Modified iff
\* tracked and the hashes differ, Created iff on disk, untracked and not
\* ignored, Deleted iff tracked and missing from disk.
C9_FourStateDefinition ==
    statusOut # NoStatus =>
        LET t == statusOut.target
            r == statusOut.result
        IN  \A p \in Under(t) :
              /\ Reported(r, p, "unchanged") <=>
                    (Tracked(p) /\ is_file(p)
                        /\ Recorded(p) = get_file_hash_path(p))
              /\ Reported(r, p, "modified") <=>
                    (Tracked(p) /\ is_file(p)
                        /\ Recorded(p) # get_file_hash_path(p))
              /\ Reported(r, p, "created") <=>
                    (is_file(p) /\ ~Tracked(p) /\ ~is_ignored(p))
              /\ Reported(r, p, "deleted") <=> (Tracked(p) /\ ~is_file(p))

\* C10: right after add_file or update_file of a file whose content has not
\* changed since, status reports that file Unchanged.
C10_UnchangedAfterIndexing ==
    (/\ statusOut # NoStatus
     /\ op.name \in {"add_file", "update_file"}
     /\ op.arg \in Under(statusOut.target)
     /\ ~is_ignored(op.arg))
    => LET r == statusOut.result
       IN  /\ Entries(r, op.arg) # {}
           /\ LET first == CHOOSE i \in Entries(r, op.arg) :
                              \A j \in Entries(r, op.arg) : i <= j
              IN  r[first].status = "unchanged"

-----------------------------------------------------------------------------
(* The workspace scan *)

ScanCodes ==
    { <<TextLine("x")>>,
      <<RefLine("B", 0)>>,
      <<TextLine("x"), RefLine("B", 2)>>,
      <<RefLine("B", 0), RefLine("B", 0)>>,
      <<RefLine("A", 0)>>,
      <<RefLine("Z", 0)>> }

InitScan ==
    /\ ResIdle
    /\ BlkIdle
    /\ StageIdle
    /\ files = <<>>
    /\ entanglements = <<>>
    /\ disk = [p \in Paths |-> OnDisk(<<"x">>)]
    /\ ignore = {}
    /\ statusOut = NoStatus
    /\ op = [name |-> "init", arg |-> ""]
    /\ \E ca \in ScanCodes, cb \in ScanCodes, nb \in {"A", "B"} :
          docs = [p \in Paths |->
                    IF p = "a.md"
                    THEN <<Paragraph, FencedCode("python", <<Id("A")>>, ca)>>
                    ELSE <<FencedCode("python", <<Id(nb)>>, cb)>>]
    /\ scan_pc = "start"
    /\ futures = {}
    /\ cursor = <<1, 1>>

NextScan ==
    \/ scan_submit
    \/ \E f \in Paths : scan_collect(f)
    \/ scan_references
    \/ update_workspace_references

SpecScan == InitScan /\ [][NextScan]_vars

\* The names in references_to and referenced_by.
OutgoingNames(e) ==
    { e.references_to[j].reference : j \in 1..Len(e.references_to) }
IncomingNames(e) ==
    { e.referenced_by[j].reference : j \in 1..Len(e.referenced_by) }

Referencers(es, b) ==
    { es[a].name : a \in { a \in 1..Len(es) : es[b].name \in OutgoingNames(es[a]) } }

\* C2: after a workspace scan and after a reference recomputation, the
\* incoming references of every indexed block B are exactly the indexed
\* blocks whose outgoing references contain B's name, each of them once.
C2_ReferentialIntegrity ==
    scan_pc \in {"done", "recomputed"} =>
        \A b \in 1..Len(entanglements) :
            /\ IncomingNames(entanglements[b]) = Referencers(entanglements, b)
            /\ Len(entanglements[b].referenced_by)
                  = Cardinality(Referencers(entanglements, b))


-----------------------------------------------------------------------------
(* Intergalactangled.resolve_non_entangled_document *)

\* MarkdownDocumentParser.non_entangled_code_blocks after parse() and
\* get_entanglements() on one document: block name -> children of the
\* EntangledDocument NowebBloodhound built for it.
non_entangled_code_blocks(document) ==
    get_entanglements(document, docs[document], NoBlocks).blocks

DefinedNames ==
    UNION { DOMAIN non_entangled_code_blocks(d) : d \in Paths }

\* entanglement.definition.file of the record the index holds for `name`.
FirstDefinition(name) ==
    get_entanglement(entanglements,
                     indexof_entanglement(entanglements, ByName(name))).file

\* What one turn of the for loop does with `child` when the seen set is `sn`.
Resolved(yield, sn, logged, raised) ==
    [yield |-> yield, seen |-> sn, log |-> logged, raised |-> raised,
     expand |-> [on |-> FALSE, children |-> <<>>]]

\* A block yielded with a generator over `children` as its children.
Expanded(block, sn, children) ==
    [yield |-> <<block>>, seen |-> sn, log |-> <<>>, raised |-> "",
     expand |-> [on |-> TRUE, children |-> children]]

\* A resolver that expands every reference it meets and keeps no account of
\* the names it expanded.  It is not the code: it is what the bound on the
\* expansions is measured against.
resolve_every_reference(child, sn) ==
    IF child.type = "NonEntangledCodeBlock"
    THEN IF child.ref_name \in DefinedNames
         THEN LET source == FirstDefinition(child.ref_name)
              IN  Expanded(EntangledCodeBlock(child.ref_name, source,
                                              child.indent, <<>>),
                           sn,
                           non_entangled_code_blocks(source)[child.ref_name])
         ELSE Resolved(<<>>, sn,
                       <<[level |-> "warning", message |-> "not found",
                          ref_name |-> child.ref_name]>>, "")
    ELSE IF child.type = "RawCodeBlock"
    THEN Resolved(child.children, sn, <<>>, "")
    ELSE Resolved(<<>>, sn, <<>>, "")

\* A resolver that expands the references and keeps the names it met in
\* one set for all the resolutions under way.  It is not the code: it is
\* what the privacy of the seen set is measured against.
resolve_sharing_seen(child, sn) ==
    LET shared == sn \cup call.result.first.seen \cup call.result.second.seen
    IN  IF child.type = "NonEntangledCodeBlock"
        THEN IF child.ref_name \in shared
             THEN Resolved(<<>>, sn,
                           <<[level |-> "error", message |-> "Cycle detected",
                              ref_name |-> child.ref_name]>>, "")
             ELSE LET source == FirstDefinition(child.ref_name)
                  IN  Expanded(EntangledCodeBlock(child.ref_name, source,
                                                  child.indent, <<>>),
                               sn \cup {child.ref_name},
                               non_entangled_code_blocks(source)[child.ref_name])
        ELSE IF child.type = "RawCodeBlock"
        THEN Resolved(child.children, sn, <<>>, "")
        ELSE Resolved(<<child>>, sn, <<>>, "")

\* The tests are made in the order of the code: a NonEntangledCodeBlock is an
\* EntangledCodeBlock, so the first branch takes it and yields it as it is.
\* The third branch looks the name up with get_entanglement(index: int),
\* which indexes the repeated field with a str.
resolve_non_entangled_document(child, sn) ==
    IF isinstance(child, "EntangledCodeBlock")
    THEN Resolved(<<child>>, sn, <<>>, "")
    ELSE IF isinstance(child, "RawCodeBlock")
    THEN Resolved(child.children, sn, <<>>, "")
    ELSE IF isinstance(child, "NonEntangledCodeBlock")
    THEN IF child.ref_name \in sn
         THEN Resolved(<<>>, sn,
                       <<[level |-> "error", message |-> "Cycle detected",
                          ref_name |-> child.ref_name]>>, "")
         ELSE Resolved(<<>>, sn \cup {child.ref_name}, <<>>, "TypeError")
    ELSE Resolved(<<>>, sn, <<>>, "")

\* The end of the children of a block whose children are a generator.
EndOfBlock == [type |-> "end"]

\* The caller asks for the resolution of block `name` of `document`.
resolve_start(document, name) ==
    /\ res_pc = "idle"
    /\ name \in DOMAIN non_entangled_code_blocks(document)
    /\ res_pc' = "run"
    /\ root' = [document |-> document, name |-> name]
    /\ frames' = <<[ref_name |-> name, pos |-> 1,
                    children |-> non_entangled_code_blocks(document)[name]]>>
    /\ seen' = {}
    /\ UNCHANGED <<out, log, counters, rendered, idxVars, scanVars, blkVars, stageVars, diffVars, permVars, callVars, poolVars>>

\* One next() on the innermost generator.
resolve_next ==
    /\ res_pc = "run"
    /\ LET top  == frames[Len(frames)]
           rest == SubSeq(frames, 1, Len(frames) - 1)
       IN  IF top.pos > Len(top.children)
           THEN /\ frames' = rest
                /\ res_pc' = IF rest = <<>> THEN "done" ELSE "run"
                /\ out' = IF rest = <<>> THEN out ELSE Append(out, EndOfBlock)
                /\ counters' = [counters EXCEPT !.steps = @ + 1]
                /\ UNCHANGED <<seen, log>>
           ELSE LET r == resolve_non_entangled_document(
                             top.children[top.pos], seen)
                    advanced == Append(rest, [top EXCEPT !.pos = @ + 1])
                IN  /\ r.expand.on => counters.expansions < MaxExpansions
                    /\ seen' = r.seen
                    /\ log' = log \o r.log
                    /\ out' = out \o r.yield
                    /\ res_pc' = IF r.raised # "" THEN "raised" ELSE "run"
                    /\ frames' =
                         IF r.expand.on
                         THEN Append(advanced,
                                     [ref_name |-> r.yield[1].ref_name,
                                      pos |-> 1,
                                      children |-> r.expand.children])
                         ELSE advanced
                    /\ counters' =
                         [expansions |-> counters.expansions
                                         + (IF r.expand.on THEN 1 ELSE 0),
                          steps |-> counters.steps + 1]
    /\ UNCHANGED <<root, rendered, idxVars, scanVars, blkVars, stageVars, diffVars, permVars, callVars, poolVars>>

-----------------------------------------------------------------------------
(* models/entangled_entities.py: EntangledDocument.entangled *)

Raised(exception) == [kind |-> "raised", exception |-> exception]

\* entangled(self) ends in "\n".join(format_child(self, comment_chars)), and
\* comment_chars is no parameter, local or global of it: the argument list
\* is evaluated first, so the call raises before a line is produced.
entangled(document) == Raised("NameError")

\* The document handed to the renderer: the items the resolver yielded.
EntangledDocument(children) ==
    [type |-> "EntangledDocument", children |-> children]

render ==
    /\ res_pc = "done"
    /\ res_pc' = "rendered"
    /\ rendered' = entangled(EntangledDocument(out))
    /\ UNCHANGED <<root, frames, seen, out, log, counters, idxVars, scanVars, blkVars, stageVars, diffVars, permVars, callVars, poolVars>>

-----------------------------------------------------------------------------
(* parsing/entangled.py: EntangledNowebBloodhound *)

\* The lines of a target file between the file header and the file footer:
\* one that matches NOWEB_HEADER, one that matches NOWEB_FOOTER, any other.
HeaderLine(indent, ref_name, source) ==
    [kind |-> "header", indent |-> indent, ref_name |-> ref_name,
     source |-> source]
FooterLine(indent) == [kind |-> "footer", indent |-> indent]

RECURSIVE GetAt(_, _)
GetAt(node, path) ==
    IF path = <<>> THEN node
    ELSE GetAt(node.children[Head(path)], Tail(path))

RECURSIVE AppendAt(_, _, _)
AppendAt(node, path, item) ==
    IF path = <<>> THEN [node EXCEPT !.children = Append(@, item)]
    ELSE [node EXCEPT !.children[Head(path)] = AppendAt(@, Tail(path), item)]

Front(path) == SubSeq(path, 1, Len(path) - 1)

\* The state of the rule set: self.document, the position of current_parent
\* in it, and the positions of the blocks whose `parent` was assigned.
BloodhoundStart ==
    [document |-> EntangledDocument(<<>>), current_parent |-> <<>>,
     parented |-> {}]

TypeAt(st, path) == GetAt(st.document, path).type

\* Appends `item` under `path` and moves current_parent to it.
Descend(st, path, item) ==
    LET grown == AppendAt(st.document, path, item)
    IN  [st EXCEPT !.document = grown,
                   !.current_parent =
                        Append(path, Len(GetAt(grown, path).children))]

on_header(st, line) ==
    LET entangled_block ==
            EntangledCodeBlock(line.ref_name, line.source, line.indent, <<>>)
        here == st.current_parent
    IN  IF TypeAt(st, here) = "EntangledDocument"
        THEN Descend(st, here, entangled_block)
        ELSE IF TypeAt(st, here) = "EntangledCodeBlock"
        THEN LET down == Descend(st, here, entangled_block)
             IN  [down EXCEPT !.parented = @ \cup {down.current_parent}]
        ELSE Descend(st, Front(here), entangled_block)

\* `parent` of the node at `path`: a RawCodeBlock is built with it, a block
\* has it when on_header assigned it, and it is None (written <<0>>, which
\* is no position) otherwise.
NoParent == <<0>>
ParentOf(st, path) ==
    IF path = <<>> \/ path = NoParent THEN NoParent
    ELSE IF TypeAt(st, path) = "RawCodeBlock" \/ path \in st.parented
    THEN Front(path)
    ELSE NoParent

on_footer(st, line) ==
    LET here == st.current_parent
        up   == IF TypeAt(st, here) = "RawCodeBlock"
                THEN ParentOf(st, ParentOf(st, here))
                ELSE here
    IN  [st EXCEPT !.current_parent = IF up = NoParent THEN <<>> ELSE up]

on_line(st, line) ==
    LET here   == st.current_parent
        opened == IF TypeAt(st, here) \in {"EntangledDocument",
                                           "EntangledCodeBlock"}
                  THEN Descend(st, here, RawCodeBlock(<<>>))
                  ELSE st
    IN  [opened EXCEPT !.document =
            AppendAt(@, opened.current_parent, Str(line.text))]

\* One line through the rules in their order; each of them ends the line.
bloodhound_rules(st, line) ==
    IF line.kind = "header" THEN on_header(st, line)
    ELSE IF line.kind = "footer" THEN on_footer(st, line)
    ELSE on_line(st, line)

RECURSIVE bloodhound_fold(_, _)
bloodhound_fold(st, code) ==
    IF code = <<>> THEN st
    ELSE bloodhound_fold(bloodhound_rules(st, Head(code)), Tail(code))

\* parser.run(code); parser.document
bloodhound_run(code) == bloodhound_fold(BloodhoundStart, code).document

-----------------------------------------------------------------------------
(* Resolution and rendering of one block of a scanned workspace *)

ResolveCodes ==
    { <<TextLine("x")>>,
      <<RefLine("B", 0)>>,
      <<RefLine("A", 0)>>,
      <<TextLine("x"), RefLine("B", 2), TextLine("y")>>,
      <<TextLine("x"), RefLine("Z", 0), TextLine("y")>>,
      <<RefLine("B", 0), TextLine("x"), RefLine("A", 0)>> }

InitResolve ==
    /\ ResIdle
    /\ BlkIdle
    /\ StageIdle
    /\ files = <<>>
    /\ disk = [p \in Paths |-> OnDisk(<<"x">>)]
    /\ ignore = {}
    /\ statusOut = NoStatus
    /\ op = [name |-> "init", arg |-> ""]
    /\ \E ca \in ResolveCodes, cb \in ResolveCodes :
          docs = [p \in Paths |->
                    IF p = "a.md"
                    THEN <<Paragraph, FencedCode("python", <<Id("A")>>, ca)>>
                    ELSE <<FencedCode("python", <<Id("B")>>, cb)>>]
    /\ entanglements = add_all(add_all(<<>>, scan_file("a.md")),
                               scan_file("d/b.md"))
    /\ scan_pc = "done"
    /\ futures = {}
    /\ cursor = <<1, 1>>

NextResolve ==
    \/ \E d \in Paths, n \in {"A", "B"} : resolve_start(d, n)
    \/ resolve_next
    \/ render

SpecResolve == InitResolve /\ [][NextResolve]_vars

-----------------------------------------------------------------------------
(* Claims about resolution and rendering *)

Finished == res_pc \in {"done", "rendered"}

\* The tree the resolution started from.
InputTree == non_entangled_code_blocks(root.document)[root.name]

\* The references of a list of children, in document order: those that are
\* children themselves and those inside a RawCodeBlock.
RECURSIVE ReferencesIn(_)
ReferencesIn(children) ==
    IF children = <<>> THEN <<>>
    ELSE LET child == Head(children)
             here  == IF child.type = "NonEntangledCodeBlock" THEN <<child>>
                      ELSE IF child.type = "RawCodeBlock"
                      THEN ReferencesIn(child.children)
                      ELSE <<>>
         IN  here \o ReferencesIn(Tail(children))

IsUnresolved(item)    == item.type = "NonEntangledCodeBlock"
IsResolvedBlock(item) == item.type = "EntangledCodeBlock"
IsCycleMarker(item)   == item.type = "CycleMarker"
IsErrorNode(item)     == item.type = "BlockNotFound"

\* How many blocks are open around the i-th yielded item.
Depth(i) ==
    Cardinality({ j \in 1..(i - 1) : IsResolvedBlock(out[j]) })
    - Cardinality({ j \in 1..(i - 1) : out[j] = EndOfBlock })

\* The items that stand for the references of the input tree itself.
Accounted ==
    { i \in 1..Len(out) :
        /\ Depth(i) = 0
        /\ IsResolvedBlock(out[i]) \/ IsCycleMarker(out[i])
                                   \/ IsErrorNode(out[i]) }

\* C3: the tree Resolve returns for a tree of the prose parser holds no
\* unresolved reference, and every reference of the input is in it as a
\* resolved block, a cycle marker or an error node.
C3_NoUnresolvedReference ==
    Finished =>
        /\ \A i \in 1..Len(out) : ~IsUnresolved(out[i])
        /\ Cardinality(Accounted) = Len(ReferencesIn(InputTree))

\* The longest list of children among the blocks of the workspace.
BlockLengths ==
    UNION { { Len(non_entangled_code_blocks(d)[b]) :
                b \in DOMAIN non_entangled_code_blocks(d) } : d \in Paths }

LongestBlock == CHOOSE n \in BlockLengths : \A m \in BlockLengths : m <= n

\* C4: the traversal of a resolved tree expands no more blocks than the
\* workspace defines, takes no more steps than those blocks have children
\* to give, and can always take its next step until it is finished.
C4_ResolveTerminates ==
    /\ counters.expansions <= Cardinality(DefinedNames)
    /\ counters.steps <= (Cardinality(DefinedNames) + 1) * (LongestBlock + 1)
    /\ res_pc = "run" => ENABLED resolve_next

\* The reference graph of the index: the names a block refers to.
RefersTo(n) ==
    UNION { OutgoingNames(entanglements[i]) :
              i \in { i \in 1..Len(entanglements) : entanglements[i].name = n } }

\* A traversal from A through B back to A was carried to its end.
C4_Witness ==
    /\ res_pc = "done"
    /\ root.name = "A"
    /\ "B" \in RefersTo("A")
    /\ "A" \in RefersTo("B")
    /\ counters.steps > 0

\* Scenario D: A is the one line <<B>> and B is the one line <<A>>.
ScenarioD ==
    /\ root = [document |-> "a.md", name |-> "A"]
    /\ docs["a.md"][2].children[1] = <<RefLine("B", 0)>>
    /\ docs["d/b.md"][1].children[1] = <<RefLine("A", 0)>>

\* C5: in Scenario D the resolution of A ends with a cycle marker for A
\* inside the resolved block B, where A is met the second time, and with
\* nothing after it.
C5_CycleMarkerOnSecondVisit ==
    (ScenarioD /\ res_pc # "idle" /\ res_pc # "run") =>
        /\ Finished
        /\ Len(out) = 3
        /\ IsResolvedBlock(out[1]) /\ out[1].ref_name = "B"
        /\ IsCycleMarker(out[2]) /\ out[2].ref_name = "A"
        /\ out[3] = EndOfBlock

\* Scenario C: A is a line, a reference to the undefined Z, and a line.
ScenarioC ==
    /\ root = [document |-> "a.md", name |-> "A"]
    /\ docs["a.md"][2].children[1] =
          <<TextLine("x"), RefLine("Z", 0), TextLine("y")>>
    /\ "Z" \notin DefinedNames

\* C6: in Scenario C the resolver records a diagnostic for Z, puts an error
\* node where the reference was, and leaves the lines before and after it
\* in their places.
C6_BlockNotFoundInPlace ==
    (ScenarioC /\ res_pc # "idle" /\ res_pc # "run") =>
        /\ Finished
        /\ \E k \in 1..Len(log) : log[k].ref_name = "Z"
        /\ Len(out) = 3
        /\ out[1] = Str("x")
        /\ IsErrorNode(out[2]) /\ out[2].ref_name = "Z"
        /\ out[3] = Str("y")

\* The names reached from `names` in at most `n` steps of the reference
\* graph, `names` not counted.
RECURSIVE ReachedIn(_, _)
ReachedIn(names, n) ==
    IF n = 0 THEN {}
    ELSE LET next == UNION { RefersTo(m) : m \in names }
         IN  next \cup ReachedIn(next, n - 1)

Reached(name) == ReachedIn({name}, Cardinality(DefinedNames) + 1)

\* Every reference below the root resolves, and none of them closes a cycle.
ResolvesWithoutCycles ==
    /\ Reached(root.name) \subseteq DefinedNames
    /\ \A m \in Reached(root.name) \cup {root.name} : m \notin Reached(m)
    /\ Reached(root.name) # {}

\* The blocks of a tree as the sequence of their openings and ends, which
\* fixes their names, their nesting and their order.
Opening(ref_name) == [type |-> "begin", ref_name |-> ref_name]

RECURSIVE BlocksOf(_)
BlocksOf(children) ==
    IF children = <<>> THEN <<>>
    ELSE LET child == Head(children)
             here  == IF child.type = "EntangledCodeBlock"
                      THEN <<Opening(child.ref_name)>>
                           \o BlocksOf(child.children) \o <<EndOfBlock>>
                      ELSE IF child.type = "RawCodeBlock"
                      THEN BlocksOf(child.children)
                      ELSE <<>>
         IN  here \o BlocksOf(Tail(children))

\* The same sequence for what the resolver yielded.
RECURSIVE BlocksYielded(_)
BlocksYielded(items) ==
    IF items = <<>> THEN <<>>
    ELSE LET item == Head(items)
             here == IF IsResolvedBlock(item) THEN <<Opening(item.ref_name)>>
                     ELSE IF item = EndOfBlock THEN <<EndOfBlock>>
                     ELSE <<>>
         IN  here \o BlocksYielded(Tail(items))

\* C7: when every reference below the root resolves without a cycle, the
\* rendering of the resolved tree is a text, and the generated-form parser
\* reads from it the blocks of the resolved tree: the same names in the same
\* nesting and order.
C7_RoundTrip ==
    (res_pc = "rendered" /\ ResolvesWithoutCycles) =>
        /\ rendered.kind = "text"
        /\ \A i \in 1..Len(out) : ~IsUnresolved(out[i])
        /\ BlocksOf(bloodhound_run(rendered.lines).children)
              = BlocksYielded(out)

-----------------------------------------------------------------------------
(* Intergalactangled.get_block_status and get_blocks_as_deleted *)

\* get_file_blocks: the records that name `file` as their definition file,
\* their target file or their indirect target file.
InFile(x, file) ==
    \/ x.file = file
    \/ x.target_file = file
    \/ x.indirect_target_file = file

get_file_blocks(es, file) == SelectSeq(es, LAMBDA x : InFile(x, file))

DiffedEntanglementBlock(name, status) == [name |-> name, status |-> status]

\* One parsed block in the first loop of get_block_status.  `st` holds what
\* was yielded, non_processed_entanglements, and whether the local
\* indexed_entanglement was assigned.  A created block is yielded after "*"
\* was appended to its name.
block_status_step(st, es, parsed_entanglement_block) ==
    LET entanglement == parsed_entanglement_block.entanglement
        index == indexof_entanglement(es, ByName(entanglement.name))
    IN  IF index = -1
        THEN [st EXCEPT !.yielded =
                Append(@, DiffedEntanglementBlock(entanglement.name \o "*",
                                                  "created"))]
        ELSE LET indexed_entanglement == get_entanglement(es, index)
                 status == IF entanglement.hash = indexed_entanglement.hash
                           THEN "unchanged" ELSE "modified"
             IN  [yielded |-> Append(st.yielded,
                        DiffedEntanglementBlock(entanglement.name, status)),
                  non_processed |-> st.non_processed
                                    \ {indexed_entanglement.name},
                  assigned |-> TRUE]

RECURSIVE block_status_loop(_, _, _)
block_status_loop(st, es, parsed) ==
    IF parsed = <<>> THEN st
    ELSE block_status_loop(block_status_step(st, es, Head(parsed)),
                           es, Tail(parsed))

\* get_block_status(file), consumed to its end.  The second loop starts with
\* a log line that reads indexed_entanglement, which no statement has
\* assigned when no parsed block was found in the index.
get_block_status_result(es, file) ==
    LET blocks == get_file_blocks(es, file)
        start  == [yielded |-> <<>>,
                   non_processed |-> { blocks[i].name : i \in 1..Len(blocks) },
                   assigned |-> FALSE]
        first  == block_status_loop(start, es, scan_file(file))
    IN  IF first.non_processed = {}
        THEN [file |-> file, yielded |-> first.yielded, deleted |-> {},
              raised |-> ""]
        ELSE IF ~first.assigned
        THEN [file |-> file, yielded |-> first.yielded, deleted |-> {},
              raised |-> "UnboundLocalError"]
        ELSE [file |-> file, yielded |-> first.yielded,
              deleted |-> first.non_processed, raised |-> ""]

get_block_status(file) ==
    /\ blockOut' = get_block_status_result(entanglements, file)
    /\ UNCHANGED <<idxVars, scanVars, resVars, stageVars, diffVars, permVars, callVars, poolVars>>

\* get_blocks_as_deleted(file): every record of get_file_blocks, as Deleted.
get_blocks_as_deleted_result(es, file) ==
    LET blocks == get_file_blocks(es, file)
    IN  [i \in 1..Len(blocks) |->
            DiffedEntanglementBlock(blocks[i].name, "deleted")]

\* The user rewrites a prose document.
edit_document(document, parsed_document) ==
    /\ docs[document] # parsed_document
    /\ docs' = [docs EXCEPT ![document] = parsed_document]
    /\ blockOut' = NoBlockStatus
    /\ UNCHANGED <<idxVars, scan_pc, futures, cursor, resVars, stageVars, diffVars, permVars, callVars, poolVars>>

\* The documents a user may leave behind: no block, block A or B with one
\* of two codes, or both.
BlockCodes == { <<TextLine("x")>>, <<TextLine("y")>> }

EditedDocuments ==
    {<<Paragraph>>}
    \cup { <<FencedCode("python", <<Id(n)>>, c)>> :
              n \in {"A", "B", "C"}, c \in BlockCodes }
    \cup { <<FencedCode("python", <<Id("A")>>, <<TextLine("x")>>),
             FencedCode("python", <<Id("C")>>, <<TextLine("x")>>)>>,
           <<FencedCode("python", <<Id("A")>>, <<TextLine("x")>>),
             FencedCode("python", <<Id("A")>>, <<TextLine("y")>>)>> }

InitBlocks ==
    /\ ResIdle
    /\ BlkIdle
    /\ StageIdle
    /\ files = <<>>
    /\ disk = [p \in Paths |-> OnDisk(<<"x">>)]
    /\ ignore = {}
    /\ statusOut = NoStatus
    /\ op = [name |-> "init", arg |-> ""]
    /\ docs = [p \in Paths |->
                IF p = "a.md"
                THEN <<FencedCode("python", <<Id("A")>>, <<TextLine("x")>>)>>
                ELSE <<FencedCode("python", <<Id("B")>>, <<TextLine("x")>>)>>]
    /\ entanglements = add_all(add_all(<<>>, scan_file("a.md")),
                               scan_file("d/b.md"))
    /\ scan_pc = "done"
    /\ futures = {}
    /\ cursor = <<1, 1>>

NextBlocks ==
    \/ \E d \in Paths, c \in EditedDocuments : edit_document(d, c)
    \/ \E d \in Paths : get_block_status(d)

SpecBlocks == InitBlocks /\ [][NextBlocks]_vars

\* The blocks the current parse of the reported file finds, and the names
\* the index holds for that file.
ParsedNow == scan_file(blockOut.file)
ParsedNames == { ParsedNow[i].entanglement.name : i \in 1..Len(ParsedNow) }
IndexedNames(file) ==
    { entanglements[i].name :
        i \in { i \in 1..Len(entanglements) : InFile(entanglements[i], file) } }

ExpectedBlockStatus(entanglement) ==
    LET index == indexof_entanglement(entanglements, ByName(entanglement.name))
    IN  IF index = -1 THEN "created"
        ELSE IF entanglement.hash = entanglements[index].hash
        THEN "unchanged" ELSE "modified"

\* C11: get_block_status reports every block of the current parse once,
\* under its own name and with the status its name and hash give it, and
\* reports Deleted exactly the names the index holds for the file that the
\* parse did not meet.
C11_BlockStatus ==
    blockOut.file # "" =>
        /\ blockOut.raised = ""
        /\ Len(blockOut.yielded) = Len(ParsedNow)
        /\ \A i \in 1..Len(ParsedNow) :
              blockOut.yielded[i] =
                 DiffedEntanglementBlock(ParsedNow[i].entanglement.name,
                        ExpectedBlockStatus(ParsedNow[i].entanglement))
        /\ blockOut.deleted = IndexedNames(blockOut.file) \ ParsedNames

-----------------------------------------------------------------------------
(* The staging context: initialize_staging_context and stage_file_* *)

\* A message of staging_pb2 is a record with the fields the code reads and
\* writes, and a repeated field is a list that an assignment replaces.

\* str(xxh64(data).digest())
digest_str(data) == [kind |-> "str(digest)", of |-> data]

\* initialize_staging_context: a fresh ChangeRecords whose id is made from
\* the clock; ChangeIndex.ids is set to the empty set.
initialize_staging_context(description) ==
    [context |-> [ChangeRecords EXCEPT
                     !.id = [hash |-> digest_str(now), preparation_time |-> now,
                             description |-> description]],
     ids |-> <<>>]

stage_file_indexation(ctx, filename) ==
    [ctx EXCEPT !.files_to_index = Append(@, filename)]

stage_file_unindexation(ctx, filename) ==
    [ctx EXCEPT !.files_to_unindex = Append(@, filename)]

ChangeRecord(type, filename, data) ==
    [type |-> type, filename |-> filename, data |-> data]

stage_file_creation(ctx, filename, content) ==
    [stage_file_indexation(ctx, filename) EXCEPT
        !.records = Append(@, ChangeRecord("CREATE", filename, content))]

stage_file_deletion(ctx, filename) ==
    [stage_file_unindexation(ctx, filename) EXCEPT
        !.records = Append(@, ChangeRecord("DELETE", filename, <<>>))]

stage_file_update(ctx, filename, diff) ==
    [ctx EXCEPT !.records = Append(@, ChangeRecord("UPDATE", filename, diff))]

-----------------------------------------------------------------------------
(* __main__.prep *)

\* diffed_file.filename == diffed_definition.file compares a Path with a
\* str, and a Path equals no str.
PathEqualsStr(path, text) == FALSE

\* The refresh its docstring promises: the blocks of the documents parsed
\* again and put in the index.
update_workspace_references_rescanned(es) ==
    [entanglements |-> add_all(add_all(<<>>, scan_file("a.md")),
                               scan_file("d/b.md")),
     raised |-> ""]

\* update_workspace_references as prep calls it: the status of "**/*" lists
\* nothing and the index is left as it is; a listed file would end the call
\* at the log line that reads the undefined name `file`.
update_workspace_references_result(es) ==
    IF get_status_result(GlobTarget) = <<>>
    THEN [entanglements |-> es, raised |-> ""]
    ELSE [entanglements |-> es, raised |-> "NameError"]

\* A block reported Deleted: the target file of the block is staged for
\* deletion when the definition file itself was deleted, then
\* intergalactangled.get_related_files is called, which does not exist.
prep_deleted_block(ctx, diffed_file, entanglement) ==
    LET cascade == /\ PathEqualsStr(diffed_file.filename, entanglement.file)
                   /\ diffed_file.status = "deleted"
                   /\ entanglement.target_file # ""
    IN  [context |-> IF cascade
                     THEN stage_file_deletion(ctx, entanglement.target_file)
                     ELSE ctx,
         raised  |-> "AttributeError"]

\* The blocks of a deleted file, one after the other until one raises.
RECURSIVE prep_deleted_blocks(_, _, _)
prep_deleted_blocks(ctx, diffed_file, blocks) ==
    IF blocks = <<>> THEN [context |-> ctx, raised |-> ""]
    ELSE LET r == prep_deleted_block(ctx, diffed_file, Head(blocks))
         IN  IF r.raised # "" THEN r
             ELSE prep_deleted_blocks(r.context, diffed_file, Tail(blocks))

\* The blocks of a modified file: an Unchanged block is passed over; a
\* Created or Modified one is looked up with get_current_entanglement_blocks,
\* which reads non_entangled_code_blocks of a DocumentParser, and a Deleted
\* one ends as above.
prep_modified_blocks(ctx, es, diffed_file) ==
    LET r == get_block_status_result(es, diffed_file.filename)
        Changed(b) == b.status # "unchanged"
    IN  IF SelectSeq(r.yielded, Changed) # <<>> \/ r.deleted # {}
        THEN [context |-> ctx, raised |-> "AttributeError"]
        ELSE [context |-> ctx, raised |-> r.raised]

\* One file of get_status(target).  `st` holds the context, whether
\* status_generator was assigned by an earlier file, and what was raised.
prep_file(st, es, diffed_file) ==
    IF st.raised # "" \/ diffed_file.status = "unchanged" THEN st
    ELSE IF diffed_file.status = "created"
    THEN [context |-> stage_file_indexation(st.context, diffed_file.filename),
          assigned |-> st.assigned,
          raised |-> IF st.assigned THEN "" ELSE "UnboundLocalError"]
    ELSE IF diffed_file.status = "deleted"
    THEN LET r == prep_deleted_blocks(
                     stage_file_unindexation(st.context, diffed_file.filename),
                     diffed_file,
                     get_file_blocks(es, diffed_file.filename))
         IN  [context |-> r.context, assigned |-> TRUE, raised |-> r.raised]
    ELSE LET r == prep_modified_blocks(st.context, es, diffed_file)
         IN  [context |-> r.context, assigned |-> TRUE, raised |-> r.raised]

RECURSIVE prep_files(_, _, _)
prep_files(st, es, diffed_files) ==
    IF diffed_files = <<>> THEN st
    ELSE prep_files(prep_file(st, es, Head(diffed_files)), es,
                    Tail(diffed_files))

Descriptions == {"No Message"}

\* prep(target, description).  Nothing it stages is written to disk: it
\* calls neither save_staging_context nor save_indexes.
prep(target, description) ==
    LET refreshed == update_workspace_references_result(entanglements)
        started   == initialize_staging_context(description)
        done      == prep_files([context |-> started.context,
                                 assigned |-> FALSE, raised |-> ""],
                                refreshed.entanglements,
                                get_status_result(target))
    IN  /\ entanglements' = refreshed.entanglements
        /\ IF refreshed.raised # ""
           THEN /\ cmdOut' = Command("prep", refreshed.raised)
                /\ UNCHANGED <<staging_context, staging_index>>
           ELSE /\ cmdOut' = Command("prep", done.raised)
                /\ staging_context' = done.context
                /\ staging_index' = started.ids
        /\ op' = [name |-> "prep", arg |-> target]
        /\ UNCHANGED <<diffVars, permVars, callVars, poolVars, files, disk, ignore, statusOut, plans, pbin, now,
                       scanVars, resVars, blkVars>>

\* A second passes.
MaxClock == 3
tick ==
    /\ now < MaxClock
    /\ now' = now + 1
    /\ UNCHANGED <<diffVars, permVars, callVars, poolVars, staging_context, staging_index, plans, pbin, cmdOut,
                   idxVars, scanVars, resVars, blkVars>>

-----------------------------------------------------------------------------
(* A workspace under staging *)

\* a.md defines one block whose explicit target file is d/b.md, and the
\* generated d/b.md holds no block of its own.  Saving a.md with other
\* bytes saves another code for the block.
TargetedBlock(code) ==
    FencedCode("python", <<Id("A"), KV("file", "d/b.md")>>, code)

DocumentOf(file, bytes) ==
    IF file = "a.md"
    THEN IF bytes = <<"x">> THEN <<TargetedBlock(<<TextLine("x")>>)>>
                            ELSE <<TargetedBlock(<<TextLine("y")>>)>>
    ELSE <<Paragraph>>

\* The user saves a file: its bytes and what the parser reads from them.
save_document(file, c) ==
    /\ disk[file] # OnDisk(c)
    /\ disk' = [disk EXCEPT ![file] = OnDisk(c)]
    /\ docs' = [docs EXCEPT ![file] = DocumentOf(file, c)]
    /\ op' = [name |-> "write", arg |-> file]
    /\ cmdOut' = NoCommand
    /\ statusOut' = NoStatus
    /\ UNCHANGED <<diffVars, permVars, callVars, poolVars, files, entanglements, ignore, scan_pc, futures, cursor,
                   staging_context, staging_index, plans, pbin, now,
                   resVars, blkVars>>

\* The user deletes a file.
delete_document(file) ==
    /\ disk[file].exists
    /\ disk' = [disk EXCEPT ![file] = Missing]
    /\ op' = [name |-> "unlink", arg |-> file]
    /\ cmdOut' = NoCommand
    /\ statusOut' = NoStatus
    /\ UNCHANGED <<diffVars, permVars, callVars, poolVars, files, entanglements, ignore, scanVars,
                   staging_context, staging_index, plans, pbin, now,
                   resVars, blkVars>>

\* The workspace as scan_new_workspace leaves it: both files tracked, the
\* block of a.md indexed.
InitStage ==
    /\ ResIdle
    /\ BlkIdle
    /\ staging_context = ChangeRecords
    /\ staging_index = <<>>
    /\ plans = {}
    /\ now = 1
    /\ cmdOut = NoCommand
    /\ choice = NoChoice
    /\ tasks = NoTasks
    /\ unreadable = {}
    /\ call = NoCall
    /\ disk = [p \in Paths |-> OnDisk(<<"x">>)]
    /\ docs = [p \in Paths |-> DocumentOf(p, <<"x">>)]
    /\ ignore = {}
    /\ files = add_files(<<>>, get_target_files("."))
    /\ entanglements = add_all(<<>>, scan_file("a.md"))
    /\ pbin = [NothingSaved EXCEPT !.file_index = files,
                                   !.entanglement_index = entanglements]
    /\ statusOut = NoStatus
    /\ op = [name |-> "init", arg |-> ""]
    /\ scan_pc = "done"
    /\ futures = {}
    /\ cursor = <<1, 1>>

NextStage ==
    \/ \E f \in Paths, c \in Contents : save_document(f, c)
    \/ \E f \in Paths : delete_document(f)
    \/ \E t \in Targets, d \in Descriptions : prep(t, d)
    \/ tick

SpecStage == InitStage /\ [][NextStage]_vars

\* What get_status reports for the target prep was run on.
PrepStatus == get_status_result(op.arg)
ReportedDeleted ==
    { PrepStatus[i].filename :
        i \in { i \in 1..Len(PrepStatus) : PrepStatus[i].status = "deleted" } }

Staged(type, filename) ==
    \E i \in 1..Len(staging_context.records) :
        /\ staging_context.records[i].type = type
        /\ staging_context.records[i].filename = filename

DefinedIn(file) ==
    { i \in 1..Len(entanglements) : entanglements[i].file = file }
TangledInto(file) ==
    { i \in 1..Len(entanglements) : entanglements[i].target_file = file }

\* C12: after prep, the deletion of a prose document has staged a DELETE
\* record for the target file of every block the document defines, and the
\* deletion of a target file has staged neither a DELETE nor an UPDATE
\* record for the document that defines the block.
C12_AsymmetricCascade ==
    cmdOut.name = "prep" =>
        \A file \in ReportedDeleted :
            /\ \A i \in DefinedIn(file) :
                  entanglements[i].target_file # "" =>
                      Staged("DELETE", entanglements[i].target_file)
            /\ \A i \in TangledInto(file) :
                  entanglements[i].file \notin ReportedDeleted =>
                      /\ ~Staged("DELETE", entanglements[i].file)
                      /\ ~Staged("UPDATE", entanglements[i].file)

-----------------------------------------------------------------------------
(* The operations that are meant to read the index only *)

\* A field of a message that no statement has written.
UnsetField == ""

\* get_related_target_files(entanglement), consumed to its end, on the
\* record at `index`.  `references` is the referenced_by list of the record
\* itself: pop() and += work on the record.  reference.name is a field the
\* parser never writes; has_name says whether the message has it at all.
\* reference.name in processed_references: the list holds the Reference
\* messages appended below, and a str equals no message.
name_in_processed(name, processed_references) == FALSE

RECURSIVE related_target_files_loop(_, _, _, _)
related_target_files_loop(es, index, yielded, processed_references) ==
    LET references == es[index].referenced_by
    IN  IF Len(references) = 0
        THEN [entanglements |-> es, yielded |-> yielded, raised |-> "",
              processed |-> processed_references]
        ELSE
        LET reference == references[Len(references)]
            popped    == [es EXCEPT ![index].referenced_by = Front(@)]
            processed == Append(processed_references, reference)
            corresponding_definition ==
                indexof_entanglement(popped, ByName(UnsetField))
        IN  IF name_in_processed(UnsetField, processed_references)
            THEN related_target_files_loop(popped, index, yielded,
                                           processed_references)
            ELSE IF corresponding_definition = -1
            THEN related_target_files_loop(popped, index, yielded, processed)
            ELSE
            LET found == get_entanglement(popped, corresponding_definition)
                target == IF found.target_file # ""
                          THEN <<found.target_file>> ELSE <<>>
            IN  related_target_files_loop(
                    [popped EXCEPT ![index].referenced_by =
                                       @ \o found.referenced_by],
                    index, yielded \o target, processed)

get_related_target_files_result(es, index, has_name) ==
    IF Len(es[index].referenced_by) = 0
    THEN [entanglements |-> es, yielded |-> <<>>, raised |-> "",
          processed |-> <<>>]
    ELSE IF ~has_name
    THEN [entanglements |-> [es EXCEPT ![index].referenced_by = Front(@)],
          yielded |-> <<>>, raised |-> "AttributeError", processed |-> <<>>]
    ELSE related_target_files_loop(es, index, <<>>, <<>>)

get_related_target_files(index, has_name) ==
    LET r == get_related_target_files_result(entanglements, index, has_name)
    IN  /\ index \in 1..Len(entanglements)
        /\ entanglements' = r.entanglements
        /\ cmdOut' = Command("get_related_target_files", r.raised)
        /\ op' = [name |-> "get_related_target_files",
                  arg |-> entanglements[index].name]
        /\ UNCHANGED <<diffVars, permVars, callVars, poolVars, files, disk, ignore, statusOut, scanVars, resVars,
                       blkVars, staging_context, staging_index, plans, pbin,
                       now>>

get_blocks_as_deleted(file) ==
    /\ blockOut' = [file |-> file,
                    yielded |-> get_blocks_as_deleted_result(entanglements,
                                                             file),
                    deleted |-> {}, raised |-> ""]
    /\ blockOut' # blockOut
    /\ UNCHANGED <<idxVars, scanVars, resVars, stageVars, diffVars, permVars, callVars, poolVars>>

\* The reference pass that ends scan_new_workspace, run to its end.
RECURSIVE scan_references_result(_, _, _)
scan_references_result(es, i, j) ==
    IF i > Len(es) THEN es
    ELSE IF j > Len(es[i].references_to)
    THEN scan_references_result(es, i + 1, 1)
    ELSE scan_references_result(scan_reference_result(es, i, j), i, j + 1)

\* A scanned workspace: block A of a.md refers to block B of d/b.md, and B
\* may refer back.
ReadOnlyCodes == { <<TextLine("x")>>, <<RefLine("A", 0)>> }

InitReadOnly ==
    /\ ResIdle
    /\ BlkIdle
    /\ StageIdle
    /\ disk = [p \in Paths |-> OnDisk(<<"x">>)]
    /\ ignore = {}
    /\ \E cb \in ReadOnlyCodes :
          docs = [p \in Paths |->
                    IF p = "a.md"
                    THEN <<FencedCode("python", <<Id("A")>>,
                                      <<TextLine("x"), RefLine("B", 2)>>)>>
                    ELSE <<FencedCode("python", <<Id("B")>>, cb)>>]
    /\ files = add_files(<<>>, get_target_files("."))
    /\ entanglements =
          scan_references_result(
              add_all(add_all(<<>>, scan_file("a.md")), scan_file("d/b.md")),
              1, 1)
    /\ statusOut = NoStatus
    /\ op = [name |-> "init", arg |-> ""]
    /\ scan_pc = "done"
    /\ futures = {}
    /\ cursor = <<1, 1>>

NextReadOnly ==
    \/ \E t \in Targets : get_status(t)
    \/ \E f \in Paths : get_block_status(f)
    \/ \E f \in Paths : get_blocks_as_deleted(f)
    \/ \E i \in 1..MaxEnts, has_name \in BOOLEAN :
          get_related_target_files(i, has_name)
    \/ \E d \in Paths, n \in {"A", "B"} : resolve_start(d, n)
    \/ resolve_next

SpecReadOnly == InitReadOnly /\ [][NextReadOnly]_vars

\* C14: no call of get_status, get_block_status, get_blocks_as_deleted,
\* get_related_target_files or resolve_non_entangled_document changes a
\* File record or an entanglement record.  Every step of SpecReadOnly is
\* such a call.
C14_ReadOnlyOperations ==
    [][/\ files' = files
       /\ entanglements' = entanglements]_vars

-----------------------------------------------------------------------------
(* The staging context filled and saved by a caller, and __main__.apply *)

MaxRecords == 1

\* The names save_staging_context is given: preparation_files:<time>.
PlanTimes == {1, 2}

stage_begin(description) ==
    LET started == initialize_staging_context(description)
    IN  /\ staging_context' = started.context
        /\ staging_index' = started.ids
        /\ cmdOut' = Command("initialize_staging_context", "")
        /\ UNCHANGED <<diffVars, permVars, callVars, poolVars, plans, pbin, now, idxVars, scanVars, resVars, blkVars>>

\* Until initialize_staging_context has run, staging_context is the
\* ChangeRecords class itself, which has no list to append to.
Initialized == staging_context.id.hash # NoHash

stage_creation(filename, content) ==
    /\ Initialized
    /\ Len(staging_context.records) < MaxRecords
    /\ staging_context' = stage_file_creation(staging_context, filename,
                                              content)
    /\ cmdOut' = Command("stage_file_creation", "")
    /\ UNCHANGED <<diffVars, permVars, callVars, poolVars, staging_index, plans, pbin, now, idxVars, scanVars,
                   resVars, blkVars>>

stage_deletion(filename) ==
    /\ Initialized
    /\ Len(staging_context.records) < MaxRecords
    /\ staging_context' = stage_file_deletion(staging_context, filename)
    /\ cmdOut' = Command("stage_file_deletion", "")
    /\ UNCHANGED <<diffVars, permVars, callVars, poolVars, staging_index, plans, pbin, now, idxVars, scanVars,
                   resVars, blkVars>>

stage_update(filename, diff) ==
    /\ Initialized
    /\ Len(staging_context.records) < MaxRecords
    /\ staging_context' = stage_file_update(staging_context, filename, diff)
    /\ cmdOut' = Command("stage_file_update", "")
    /\ UNCHANGED <<diffVars, permVars, callVars, poolVars, staging_index, plans, pbin, now, idxVars, scanVars,
                   resVars, blkVars>>

\* save_staging_context(filename): the context is written to that file,
\* over what the file held.
save_staging_context(time) ==
    /\ Initialized
    /\ plans' = { plan \in plans : plan.time # time }
                \cup {[time |-> time, context |-> staging_context]}
    /\ plans' # plans
    /\ cmdOut' = Command("save_staging_context", "")
    /\ UNCHANGED <<diffVars, permVars, callVars, poolVars, staging_context, staging_index, pbin, now, idxVars,
                   scanVars, resVars, blkVars>>

\* The fields of the Intergalactangled dataclass.
IntergalactangledFields ==
    {"config", "file_index", "entanglement_index", "staging_index",
     "relative_root", "staging_context", "workspace_folder", "glob_pattern",
     "ignored_folders"}

\* get_latest_preparation_context: it reads self.preparation_context, lists
\* the preparation_files:* entries, and calls get_latest_preparation_file,
\* a name no module defines.
get_latest_preparation_context_result(folders) ==
    IF "preparation_context" \notin IntergalactangledFields
    THEN [picked |-> 0, patch_files |-> <<>>, raised |-> "AttributeError"]
    ELSE IF folders = {}
    THEN [picked |-> 0, patch_files |-> <<>>, raised |-> "FileNotFoundError"]
    ELSE [picked |-> 0, patch_files |-> <<>>, raised |-> "NameError"]

\* save_indexes: both indexes are written to their files.
save_indexes_result(saved, fs, es) ==
    [saved EXCEPT !.file_index = fs, !.entanglement_index = es]

\* An apply that commits first: the files the saved contexts unindex leave
\* the file index, and the indexes are saved, before the patches are
\* looked up.
apply_result_committing(fs, es, saved, folders) ==
    LET context == get_latest_preparation_context_result(folders)
        Unindexed ==
            UNION { { plan.context.files_to_unindex[i] :
                        i \in 1..Len(plan.context.files_to_unindex) } :
                    plan \in folders }
        Kept(f) == f.filename \notin Unindexed
        kept    == SelectSeq(fs, Kept)
    IN  [files |-> kept, entanglements |-> es,
         pbin |-> save_indexes_result(saved, kept, es),
         picked |-> context.picked, applied |-> <<>>,
         raised |-> IF context.raised # "" THEN context.raised
                    ELSE "NameError"]

\* apply, to the statement that ends it: 1. the patch files of the latest
\* context, 2. Diff.apply_patch on each (Diff has no such method), 3. the
\* entanglements of target_files_to_tangle (a name apply never binds),
\* tangled and put in the indexes, 4. save_indexes.
apply_result(fs, es, saved, folders) ==
    LET context == get_latest_preparation_context_result(folders)
        Ended(raised) ==
            [files |-> fs, entanglements |-> es, pbin |-> saved,
             picked |-> context.picked, applied |-> <<>>, raised |-> raised]
    IN  IF context.raised # "" THEN Ended(context.raised)
        ELSE IF context.patch_files # <<>> THEN Ended("AttributeError")
        ELSE Ended("NameError")

apply ==
    LET r == apply_result(files, entanglements, pbin, plans)
    IN  /\ files' = r.files
        /\ entanglements' = r.entanglements
        /\ pbin' = r.pbin
        /\ cmdOut' = [Command("apply", r.raised) EXCEPT
                         !.picked = r.picked, !.applied = r.applied]
        /\ cmdOut' # cmdOut
        /\ UNCHANGED <<diffVars, permVars, callVars, poolVars, staging_context, staging_index, plans, now, disk,
                       ignore, statusOut, op, scanVars, resVars, blkVars>>

\* galac log in a process of its own: the staging index is loaded from
\* staging_index.pbin and its ids are listed.
galac_log ==
    /\ staging_index' = pbin.staging_index
    /\ cmdOut' = [Command("log", "") EXCEPT !.listed = pbin.staging_index]
    /\ cmdOut' # cmdOut
    /\ UNCHANGED <<diffVars, permVars, callVars, poolVars, staging_context, plans, pbin, now, idxVars, scanVars,
                   resVars, blkVars>>

\* What a caller stages: the generated d/b.md created or deleted, the
\* prose a.md patched.
StagedContents == { <<"x">> }

InitApply == InitStage

NextApply ==
    \/ \E d \in Descriptions : stage_begin(d)
    \/ \E c \in StagedContents : stage_creation("d/b.md", c)
    \/ stage_deletion("d/b.md")
    \/ \E c \in StagedContents : stage_update("a.md", c)
    \/ \E t \in PlanTimes : save_staging_context(t)
    \/ apply
    \/ galac_log

SpecApply == InitApply /\ [][NextApply]_vars

\* The saved context with the latest name.
LatestPlan ==
    CHOOSE plan \in plans : \A other \in plans : other.time <= plan.time

\* A record the workspace lets apply carry out: a file can be created, and
\* a file that exists can be deleted or patched.
Executable(record) ==
    record.type = "CREATE" \/ disk[record.filename].exists

\* C15: after apply, the records reported as applied are the first k
\* records of the latest saved context in their staged order, apply stopped
\* before the end only at a record that could not be carried out, and the
\* context is still there to be applied again.
C15_ApplyReplaysInOrder ==
    (cmdOut.name = "apply" /\ plans # {}) =>
        LET records == LatestPlan.context.records
            k       == Len(cmdOut.applied)
        IN  /\ k <= Len(records)
            /\ cmdOut.applied = SubSeq(records, 1, k)
            /\ k < Len(records) => ~Executable(records[k + 1])
            /\ LatestPlan \in plans

C17_LatestUnappliedPicked ==
    (cmdOut.name = "apply" /\ plans # {}) =>
        cmdOut.picked = LatestPlan.time

\* The identifiers of the contexts staged so far: those saved, and the one
\* being prepared.
StagedIds ==
    { plan.context.id : plan \in plans }
    \cup (IF Initialized THEN {staging_context.id} ELSE {})

\* C18: log lists the identifier of every context that was staged.
C18_StagingHistory ==
    cmdOut.name = "log" =>
        \A id \in StagedIds :
            \E i \in 1..Len(cmdOut.listed) : cmdOut.listed[i] = id

-----------------------------------------------------------------------------
(* utils.Diff.chose_block and Diff.solve_conflict *)

\* The names utils.py imports or defines at module level.
UtilsImports ==
    {"os", "logging", "call", "datetime", "Path", "coloredlogs", "Tree",
     "Back", "Fore", "colorama"}

Returned(value) == [returned |-> "str", value |-> value, raised |-> ""]
ReturnedNone    == [returned |-> "None", value |-> <<>>, raised |-> ""]
Failed(raised)  == [returned |-> "", value |-> <<>>, raised |-> raised]

\* solve_conflict: both blocks go to files of a temporary directory, vim -d
\* lets the user leave `merged` in the first one, and that file is read
\* once the directory, and the file with it, is gone.
solve_conflict(target_block, second_block, merged) ==
    IF "tempfile" \notin UtilsImports THEN Failed("NameError")
    ELSE Failed("FileNotFoundError")

\* chose_block: "m" echoes through click and calls solve_conflict, "t"
\* returns the secondary block, "b" the base block, anything else None.
chose_block(action_prompt, base_block, secondary_block, merged) ==
    CASE action_prompt = "m" ->
            IF "click" \notin UtilsImports THEN Failed("NameError")
            ELSE solve_conflict(base_block, secondary_block, merged)
      [] action_prompt = "t" -> Returned(secondary_block)
      [] action_prompt = "b" -> Returned(base_block)
      [] OTHER -> ReturnedNone

\* click.Choice(["t", "b", "m"]) of the prompt in prep.
Prompts == {"t", "b", "m"}

\* The texts of a block: the prose side, the target file, a merge of both.
ChoiceBlocks ==
    { <<"x">>, <<"y">>, <<"x", "y">>, <<"y", "x">>, <<"x", "y", "z">> }

chose(action_prompt, base_block, secondary_block, merged) ==
    LET r == chose_block(action_prompt, base_block, secondary_block, merged)
    IN  /\ choice' = [action_prompt |-> action_prompt,
                      base_block |-> base_block,
                      secondary_block |-> secondary_block,
                      merged |-> IF action_prompt = "m" THEN merged
                                                        ELSE <<>>,
                      returned |-> r.returned, value |-> r.value,
                      raised |-> r.raised]
        /\ choice' # choice
        /\ UNCHANGED <<idxVars, scanVars, resVars, blkVars, stageVars,
                       poolVars, permVars, callVars>>

InitChoice == InitStage

NextChoice ==
    \E a \in Prompts, b \in ChoiceBlocks, t \in ChoiceBlocks,
       m \in ChoiceBlocks : chose(a, b, t, m)

SpecChoice == InitChoice /\ [][NextChoice]_vars

\* C19: take-target returns the text of the target file, take-base the
\* text computed from the prose, manual merge the text the user left in
\* the merge, and each of the three returns a text.
C19_ThreeWayChoice ==
    choice.action_prompt # "" =>
        /\ choice.raised = ""
        /\ choice.returned = "str"
        /\ choice.action_prompt = "t" => choice.value = choice.secondary_block
        /\ choice.action_prompt = "b" => choice.value = choice.base_block
        /\ choice.action_prompt = "m" => choice.value = choice.merged

-----------------------------------------------------------------------------
(* scan_new_workspace, thread by thread *)

\* The files of the first loop that were not handed to the pool yet.
NotSubmitted ==
    SelectSeq(get_target_files("."), LAMBDA f : tasks[f] = "none")

\* A scan_file that did its work in the worker and indexed what it found.
scan_file_indexing(es, file) ==
    [entanglements |-> add_all(es, scan_file(file)), result |-> "list"]

\* What a worker does with executor.submit(self.scan_file, unparsed_file):
\* scan_file is a generator function, so the call makes a generator and
\* runs none of its body.  The index is handed through untouched.
scan_file_call(es, file) ==
    [entanglements |-> es, result |-> "generator"]

\* The coordinating thread, first loop: add_file, then submit.
pool_submit ==
    /\ scan_pc = "start"
    /\ NotSubmitted # <<>>
    /\ LET file == Head(NotSubmitted)
       IN  /\ files' = add_file_result(files, file)
           /\ tasks' = [tasks EXCEPT ![file] = "submitted"]
    /\ UNCHANGED <<entanglements, disk, ignore, statusOut, op, scanVars,
                   resVars, blkVars, stageVars, diffVars, permVars, callVars>>

\* A worker thread runs the task of one file.
worker_run(file) ==
    /\ tasks[file] = "submitted"
    /\ LET r == scan_file_call(entanglements, file)
       IN  entanglements' = r.entanglements
    /\ tasks' = [tasks EXCEPT ![file] = "finished"]
    /\ UNCHANGED <<files, disk, ignore, statusOut, op, scanVars, resVars,
                   blkVars, stageVars, diffVars, permVars, callVars>>

\* The coordinating thread leaves the `with` block: shutdown(wait=True)
\* returns once every task has finished.
pool_shutdown ==
    /\ scan_pc = "start"
    /\ NotSubmitted = <<>>
    /\ \A f \in Paths : tasks[f] \in {"none", "finished"}
    /\ scan_pc' = IF \E f \in Paths : tasks[f] = "finished"
                  THEN "collect" ELSE "refs"
    /\ UNCHANGED <<idxVars, docs, futures, cursor, resVars, blkVars,
                   stageVars, diffVars, permVars, callVars, poolVars>>

\* The coordinating thread, second loop: as_completed hands over a finished
\* future, future.result() is the generator, and iterating it parses the
\* file; each block is added to the index.
pool_collect(file) ==
    /\ scan_pc = "collect"
    /\ tasks[file] = "finished"
    /\ entanglements' = add_all(entanglements, scan_file(file))
    /\ tasks' = [tasks EXCEPT ![file] = "collected"]
    /\ scan_pc' = IF \E f \in Paths : tasks'[f] = "finished"
                  THEN "collect" ELSE "refs"
    /\ UNCHANGED <<files, disk, ignore, statusOut, op, docs, futures, cursor,
                   resVars, blkVars, stageVars, diffVars, permVars, callVars>>

InitPool == InitScan

NextPool ==
    \/ pool_submit
    \/ \E f \in Paths : worker_run(f)
    \/ pool_shutdown
    \/ \E f \in Paths : pool_collect(f)
    \/ scan_references

SpecPool == InitPool /\ [][NextPool]_vars

\* A step of a worker thread: a submitted task finishes.
WorkerStep ==
    \E f \in Paths : tasks[f] = "submitted" /\ tasks'[f] = "finished"

\* C20: a step of a worker thread changes neither the file index nor the
\* entanglement index; every change of either index is a step of the
\* coordinating thread.
C20_SingleWriter ==
    [][WorkerStep => /\ files' = files
                     /\ entanglements' = entanglements]_vars

\* A worker has finished while the coordinating thread is still in its
\* first loop, with a file indexed and another yet to be added.
C20_Witness ==
    /\ scan_pc = "start"
    /\ files # <<>>
    /\ \E f \in Paths : tasks[f] = "finished" /\ scan_file(f) # <<>>
    /\ NotSubmitted # <<>>

-----------------------------------------------------------------------------
(* The scan of a workspace with files that cannot be read *)

InitUnreadable ==
    /\ ResIdle
    /\ BlkIdle
    /\ StagingIdle
    /\ call = NoCall
    /\ unreadable \in SUBSET Paths
    /\ files = <<>>
    /\ entanglements = <<>>
    /\ disk = [p \in Paths |-> OnDisk(<<"x">>)]
    /\ ignore = {}
    /\ statusOut = NoStatus
    /\ op = [name |-> "init", arg |-> ""]
    /\ \E ca \in ScanCodes, cb \in ScanCodes :
          docs = [p \in Paths |->
                    IF p = "a.md"
                    THEN <<Paragraph, FencedCode("python", <<Id("A")>>, ca)>>
                    ELSE <<FencedCode("python", <<Id("B")>>, cb)>>]
    /\ scan_pc = "start"
    /\ futures = {}
    /\ cursor = <<1, 1>>

SpecUnreadable == InitUnreadable /\ [][NextScan]_vars

\* The names the index holds.
IndexedBlockNames ==
    { entanglements[i].name : i \in 1..Len(entanglements) }

\* C21: a scan does not end with an exception, and once its second loop is
\* over every readable file has a File record and its blocks are in the
\* index, while a file that cannot be read has no record.
C21_UnreadableSkipped ==
    /\ scan_pc # "raised"
    /\ scan_pc \in {"refs", "done"} =>
          \A f \in Paths :
              IF f \in unreadable
              THEN indexof_file(files, f) = 0
              ELSE /\ indexof_file(files, f) # 0
                   /\ \A i \in 1..Len(scan_file(f)) :
                         scan_file(f)[i].entanglement.name
                            \in IndexedBlockNames

-----------------------------------------------------------------------------
(* Workspace discovery: Intergalactangled.find_workspace *)

\* A directory is the list of its parts below the anchor; <<>> is the
\* anchor itself ("/"). MaxDepth bounds the depth of the current directory.
MaxDepth == 3
PathParts == {"w"}
Directories == UNION { [1..n -> PathParts] : n \in 0..MaxDepth }
Anchor == <<>>

\* Nothing runs but one call of a function: every other variable at rest.
AtRest ==
    /\ ScanIdle
    /\ ResIdle
    /\ BlkIdle
    /\ StagingIdle
    /\ unreadable = {}
    /\ files = <<>>
    /\ entanglements = <<>>
    /\ disk = [p \in Paths |-> OnDisk(<<"x">>)]
    /\ ignore = {}
    /\ statusOut = NoStatus
    /\ op = [name |-> "init", arg |-> ""]

NotCalled == Failed("")

\* The while loop of find_workspace: it ends on the first directory that
\* holds .intergalac, or on the anchor, which it does not look into.
RECURSIVE find_workspace_loop(_, _)
find_workspace_loop(current_dir, markers) ==
    IF current_dir = Anchor
    THEN [found |-> FALSE, current_dir |-> current_dir]
    ELSE IF current_dir \in markers
    THEN [found |-> TRUE, current_dir |-> current_dir]
    ELSE find_workspace_loop(Front(current_dir), markers)

\* find_workspace: `markers` are the directories that hold .intergalac.
\* After the loop current_dir, a Path, is compared with its anchor, a str.
find_workspace_result(cwd, markers) ==
    IF cwd \in markers
    THEN Returned(cwd)
    ELSE LET r == find_workspace_loop(cwd, markers)
         IN  IF r.found
             THEN Returned(r.current_dir)
             ELSE IF PathEqualsStr(r.current_dir, "/")
             THEN Failed("NoEntangledWorkspaceError")
             ELSE Returned(r.current_dir)

find_workspace ==
    /\ call.name = ""
    /\ call' = [call EXCEPT
                  !.name = "find_workspace",
                  !.result = find_workspace_result(call.input.cwd,
                                                   call.input.markers)]
    /\ UNCHANGED <<idxVars, scanVars, resVars, blkVars, stageVars, diffVars,
                   poolVars, permVars>>

InitWorkspace ==
    /\ AtRest
    /\ \E cwd \in Directories, markers \in SUBSET Directories :
          call = [name |-> "",
                  input |-> [cwd |-> cwd, markers |-> markers],
                  result |-> NotCalled]

NextWorkspace == find_workspace

SpecWorkspace == InitWorkspace /\ [][NextWorkspace]_vars

\* The current directory and its ancestors that hold the marker directory.
IsPrefix(a, b) == Len(a) <= Len(b) /\ SubSeq(b, 1, Len(a)) = a
MarkedAncestors ==
    { d \in call.input.markers : IsPrefix(d, call.input.cwd) }

\* C22: find_workspace returns the nearest directory, among the current one
\* and its ancestors up to the anchor, that holds the marker directory, and
\* raises NoEntangledWorkspaceError when none of them does.
C22_NearestMarkedDirectory ==
    call.name = "find_workspace" =>
        IF MarkedAncestors = {}
        THEN call.result.raised = "NoEntangledWorkspaceError"
        ELSE /\ call.result.returned = "str"
             /\ call.result.value \in MarkedAncestors
             /\ \A d \in MarkedAncestors :
                   Len(d) <= Len(call.result.value)

-----------------------------------------------------------------------------
(* Scenario B: apply tangles a prose block into its target file *)

\* The lines of a target file that holds one block: the whole-file marker
\* pair around the per-block marker pair around the code.
TangledLines(source, ref_name, code) ==
    <<"file-header " \o source, "block-header " \o ref_name \o "@" \o source>>
       \o code \o <<"block-footer", "file-footer">>

\* C23: once a saved context exists and apply has run, apply has succeeded,
\* the target file d/b.md of block A of a.md holds the code of A inside one
\* whole-file marker pair and one per-block marker pair, and the block
\* status of a.md reports A unchanged.
C23_ScenarioB ==
    (cmdOut.name = "apply" /\ plans # {}) =>
        /\ cmdOut.raised = ""
        /\ disk["d/b.md"].exists
        /\ disk["d/b.md"].bytes = TangledLines("a.md", "A", disk["a.md"].bytes)
        /\ LET status == get_block_status_result(entanglements, "a.md")
           IN  /\ status.raised = ""
               /\ \E i \in 1..Len(status.yielded) :
                     status.yielded[i].status = "unchanged"

-----------------------------------------------------------------------------
(* EntangledNowebBloodhound.run on the lines of a generated file *)

\* The lines between the file header and the file footer, MaxLines at most.
MaxLines == 4
BloodhoundLines ==
    { HeaderLine(0, "A", "a.md"), HeaderLine(0, "B", "a.md"), FooterLine(0),
      TextLine("x") }
BloodhoundCodes == UNION { [1..n -> BloodhoundLines] : n \in 0..MaxLines }

\* parser = EntangledNowebBloodhound(); parser.run(code): the rule set
\* after the last line.
parser_run ==
    /\ call.name = ""
    /\ call' = [call EXCEPT !.name = "run",
                            !.result = bloodhound_fold(BloodhoundStart,
                                                       call.input)]
    /\ UNCHANGED <<idxVars, scanVars, resVars, blkVars, stageVars, diffVars,
                   poolVars, permVars>>

InitBloodhound ==
    /\ AtRest
    /\ \E code \in BloodhoundCodes :
          call = [name |-> "", input |-> code, result |-> BloodhoundStart]

NextBloodhound == parser_run

SpecBloodhound == InitBloodhound /\ [][NextBloodhound]_vars

\* The markers of `code` are balanced: no footer without an open header,
\* and no header left open.
RECURSIVE OpenAfter(_, _)
OpenAfter(code, open) ==
    IF code = <<>> THEN open
    ELSE IF open < 0 THEN open
    ELSE OpenAfter(Tail(code),
                   IF Head(code).kind = "header" THEN open + 1
                   ELSE IF Head(code).kind = "footer" THEN open - 1
                   ELSE open)
Balanced(code) == OpenAfter(code, 0) = 0

\* The stack discipline: a header opens a block under the open node, a
\* footer returns to the node that encloses the open one, and a line goes
\* to the run of lines at the end of the open node.
StackStep(st, line) ==
    LET node == GetAt(st.document, st.open)
        last == Len(node.children)
    IN  IF line.kind = "header"
        THEN [document |-> AppendAt(st.document, st.open,
                  EntangledCodeBlock(line.ref_name, line.source, line.indent,
                                     <<>>)),
              open |-> Append(st.open, last + 1), lines |-> FALSE]
        ELSE IF line.kind = "footer"
        THEN [st EXCEPT !.open = Front(st.open), !.lines = FALSE]
        ELSE IF st.lines
        THEN [st EXCEPT !.document =
                 AppendAt(@, Append(st.open, last), Str(line.text))]
        ELSE [st EXCEPT !.document =
                 AppendAt(@, st.open, RawCodeBlock(<<Str(line.text)>>)),
              !.lines = TRUE]

RECURSIVE StackFold(_, _)
StackFold(st, code) ==
    IF code = <<>> THEN st
    ELSE StackFold(StackStep(st, Head(code)), Tail(code))

StackParse(code) ==
    StackFold([document |-> EntangledDocument(<<>>), open |-> <<>>,
               lines |-> FALSE], code).document

\* C24: for lines whose block markers are balanced, the parser builds the
\* tree the stack discipline gives: every header opens a child of the open
\* node, every footer closes exactly the open block, so what follows the
\* footer of a nested block is a child of the enclosing block.
C24_StackDiscipline ==
    (call.name = "run" /\ Balanced(call.input)) =>
        call.result.document = StackParse(call.input)

-----------------------------------------------------------------------------
(* The marker lines: generate_entangled_* and the patterns that read them *)

\* A line of text is a list of pieces: a literal of a format string or of
\* a pattern, the text of an argument, or a run of blanks.
Lit(text) == [text |-> text, blanks |-> 0]
Blanks(n) == [text |-> "", blanks |-> n]

\* Texts that hold the character "]", which the groups [^]]* leave out.
WithBracket == {"B]", "d/b].md"}
MarkerSources == {"a.md", "d/b].md"}
MarkerNames == {"A", "B]"}
MarkerIndents == {Blanks(0), Blanks(2), Lit("#")}

\* galac.version.__version__: three numbers with dots between them.
VersionTags == {"0.1.0", "1.2.3"}

BlockIntro == "Entanglement: This block is entangled with"
BlockOutro == "End of block entanglement."
FileIntro == "Entanglement: This file is entangled with "
FileOutro == "End of file entanglement. Created by Intergalactangled (Version "

generate_entangled_block(source, ref_name, indent) ==
    [header |-> <<indent, Lit("# "), Lit(BlockIntro), Lit(" {"),
                  Lit(ref_name), Lit("}@{"), Lit(source), Lit("}.")>>,
     footer |-> <<indent, Lit("# "), Lit(BlockOutro)>>]

generate_entangled_document(source, version) ==
    [header |-> <<Lit("# "), Lit(FileIntro), Lit("{"), Lit(source),
                  Lit("}.")>>,
     footer |-> <<Lit("# "), Lit(FileOutro), Lit(version), Lit(").")>>]

\* What a pattern gives for a line: None, or the groups of the match.
NoMatch == [kind |-> "line", source |-> "", ref_name |-> "", indent |-> 0]
PieceAt(line, i) == IF i \in 1..Len(line) THEN line[i] ELSE Lit("")

\* (?P<indent>\s*) at the start of the line.
LeadingBlanks(line) == PieceAt(line, 1).blanks

\* [^]]* : any text without "]".
GroupText(piece) == piece.blanks = 0 /\ piece.text \notin WithBracket

ENTANGLED_FILE_CONTENTS(line) ==
    LET At(i) == /\ PieceAt(line, i) = Lit(FileIntro)
                 /\ PieceAt(line, i + 1) = Lit("{")
                 /\ GroupText(PieceAt(line, i + 2))
                 /\ PieceAt(line, i + 3) = Lit("}.")
        hits  == { i \in 1..Len(line) : At(i) }
    IN  IF hits = {} THEN NoMatch
        ELSE [NoMatch EXCEPT
                 !.kind = "file-header",
                 !.source = PieceAt(line, (CHOOSE i \in hits : TRUE) + 2).text]

\* \(Version \d+\.\d+\.\d+ \)\. : a blank stands before the closing bracket.
ENTANGLED_FILE_END(line) ==
    LET At(i) == /\ PieceAt(line, i) = Lit(FileOutro)
                 /\ PieceAt(line, i + 1).text \in VersionTags
                 /\ PieceAt(line, i + 2) = Lit(" ).")
    IN  IF \E i \in 1..Len(line) : At(i)
        THEN [NoMatch EXCEPT !.kind = "file-footer"]
        ELSE NoMatch

NOWEB_HEADER(line) ==
    LET At(i) == /\ PieceAt(line, i) = Lit(BlockIntro)
                 /\ PieceAt(line, i + 1) = Lit(" {")
                 /\ GroupText(PieceAt(line, i + 2))
                 /\ PieceAt(line, i + 3) = Lit("}@{")
                 /\ GroupText(PieceAt(line, i + 4))
                 /\ PieceAt(line, i + 5) = Lit("}.")
        hits  == { i \in 1..Len(line) : At(i) }
    IN  IF hits = {} THEN NoMatch
        ELSE LET i == CHOOSE i \in hits : TRUE
             IN  [kind |-> "block-header",
                  source |-> PieceAt(line, i + 4).text,
                  ref_name |-> PieceAt(line, i + 2).text,
                  indent |-> LeadingBlanks(line)]

NOWEB_FOOTER(line) ==
    IF \E i \in 1..Len(line) : line[i] = Lit(BlockOutro)
    THEN [NoMatch EXCEPT !.kind = "block-footer",
                         !.indent = LeadingBlanks(line)]
    ELSE NoMatch

\* The line through the patterns of extract_entanglement, then through the
\* rules of the rule set.
recognize(line) ==
    IF ENTANGLED_FILE_CONTENTS(line) # NoMatch
    THEN ENTANGLED_FILE_CONTENTS(line)
    ELSE IF ENTANGLED_FILE_END(line) # NoMatch
    THEN ENTANGLED_FILE_END(line)
    ELSE IF NOWEB_HEADER(line) # NoMatch THEN NOWEB_HEADER(line)
    ELSE NOWEB_FOOTER(line)

MarkerKinds == {"file-header", "file-footer", "block-header", "block-footer"}

generated_marker(marker, input) ==
    LET block == generate_entangled_block(input.source, input.ref_name,
                                          input.indent)
        document == generate_entangled_document(input.source, input.version)
    IN  IF marker = "file-header" THEN document.header
        ELSE IF marker = "file-footer" THEN document.footer
        ELSE IF marker = "block-header" THEN block.header
        ELSE block.footer

\* One marker line is generated and read back.
read_marker(marker) ==
    /\ call.name = ""
    /\ LET line == generated_marker(marker, call.input)
       IN  call' = [call EXCEPT
                      !.name = "read_marker",
                      !.result = [marker |-> marker, line |-> line,
                                  match |-> recognize(line)]]
    /\ UNCHANGED <<idxVars, scanVars, resVars, blkVars, stageVars, diffVars,
                   poolVars, permVars>>

InitMarkers ==
    /\ AtRest
    /\ \E source \in MarkerSources, ref_name \in MarkerNames,
          indent \in MarkerIndents, version \in VersionTags :
          call = [name |-> "",
                  input |-> [source |-> source, ref_name |-> ref_name,
                             indent |-> indent, version |-> version],
                  result |-> [marker |-> "", line |-> <<>>,
                              match |-> NoMatch]]

NextMarkers == \E marker \in MarkerKinds : read_marker(marker)

SpecMarkers == InitMarkers /\ [][NextMarkers]_vars

\* C25: a generated marker line is read back as a marker of its own kind,
\* with the source path and the block name that were written into it.
C25_MarkerRoundTrip ==
    call.name = "read_marker" =>
        LET marker == call.result.marker
            match  == call.result.match
        IN  /\ match.kind = marker
            /\ marker \in {"file-header", "block-header"} =>
                  match.source = call.input.source
            /\ marker = "block-header" =>
                  match.ref_name = call.input.ref_name

-----------------------------------------------------------------------------
(* What prep leaves behind *)

\* C26: when prep has returned, the staging context of the call carries
\* the description and the time of the call, holds no record twice, and is
\* among the saved contexts.
C26_ChangeSetPersisted ==
    (cmdOut.name = "prep" /\ cmdOut.raised = "") =>
        /\ staging_context.id.description \in Descriptions
        /\ staging_context.id.preparation_time \in 1..MaxClock
        /\ \A i, j \in 1..Len(staging_context.records) :
              staging_context.records[i] = staging_context.records[j] => i = j
        /\ \E plan \in plans : plan.context = staging_context

-----------------------------------------------------------------------------
(* Two resolutions under way at once *)

\* One call of resolve_non_entangled_document and the generators it made:
\* the frames of the generators, the seen set of the call, what was yielded.
NoResolution ==
    [pc |-> "idle", root |-> [document |-> "", name |-> ""], frames |-> <<>>,
     seen |-> {}, out |-> <<>>, log |-> <<>>]

\* seen=None at the top-level call: "if not seen: seen = set()".
start_resolution(document, name) ==
    [pc |-> "run", root |-> [document |-> document, name |-> name],
     frames |-> <<[ref_name |-> name, pos |-> 1,
                   children |-> non_entangled_code_blocks(document)[name]]>>,
     seen |-> {}, out |-> <<>>, log |-> <<>>]

\* One next() on the innermost generator of the resolution `st`.
generator_next(st) ==
    LET top  == st.frames[Len(st.frames)]
        rest == SubSeq(st.frames, 1, Len(st.frames) - 1)
    IN  IF top.pos > Len(top.children)
        THEN [st EXCEPT !.frames = rest,
                        !.pc = IF rest = <<>> THEN "done" ELSE "run",
                        !.out = IF rest = <<>> THEN @
                                ELSE Append(@, EndOfBlock)]
        ELSE LET r == resolve_non_entangled_document(top.children[top.pos],
                                                     st.seen)
                 advanced == Append(rest, [top EXCEPT !.pos = @ + 1])
             IN  [st EXCEPT
                    !.seen = r.seen,
                    !.log = @ \o r.log,
                    !.out = @ \o r.yield,
                    !.pc = IF r.raised # "" THEN "raised" ELSE "run",
                    !.frames =
                       IF r.expand.on
                       THEN Append(advanced,
                                   [ref_name |-> r.yield[1].ref_name,
                                    pos |-> 1,
                                    children |-> r.expand.children])
                       ELSE advanced]

Resolutions == {"first", "second"}
Other(k) == IF k = "first" THEN "second" ELSE "first"

resolution_start(k, document, name) ==
    /\ call.name = "resolutions"
    /\ call.result[k].pc = "idle"
    /\ name \in DOMAIN non_entangled_code_blocks(document)
    /\ call' = [call EXCEPT !.result[k] = start_resolution(document, name)]
    /\ UNCHANGED <<idxVars, scanVars, resVars, blkVars, stageVars, diffVars,
                   poolVars, permVars>>

\* The consumer of resolution k takes its next item; `overlap` records
\* that the other resolution was under way at that moment.
resolution_next(k) ==
    /\ call.name = "resolutions"
    /\ call.result[k].pc = "run"
    /\ call' = [call EXCEPT
                  !.result[k] = generator_next(@),
                  !.result.overlap =
                      @ \/ call.result[Other(k)].pc = "run"]
    /\ UNCHANGED <<idxVars, scanVars, resVars, blkVars, stageVars, diffVars,
                   poolVars, permVars>>

\* The workspaces resolved: a diamond (A refers to B and C, both refer to
\* D), two sibling references to B, and a cycle through A and B.
Block(name, code) == FencedCode("python", <<Id(name)>>, code)
Graphs == {"diamond", "siblings", "cycle"}
GraphDocs(graph) ==
    IF graph = "diamond"
    THEN [p \in Paths |->
            IF p = "a.md"
            THEN <<Block("A", <<RefLine("B", 0), RefLine("C", 0)>>),
                   Block("C", <<RefLine("D", 0)>>)>>
            ELSE <<Block("B", <<RefLine("D", 0)>>),
                   Block("D", <<TextLine("x")>>)>>]
    ELSE IF graph = "siblings"
    THEN [p \in Paths |->
            IF p = "a.md"
            THEN <<Block("A", <<RefLine("B", 0), RefLine("B", 0)>>),
                   Block("C", <<TextLine("y"), RefLine("B", 2)>>)>>
            ELSE <<Block("B", <<TextLine("x")>>),
                   Block("D", <<RefLine("B", 0)>>)>>]
    ELSE [p \in Paths |->
            IF p = "a.md"
            THEN <<Block("A", <<RefLine("B", 0)>>),
                   Block("C", <<RefLine("A", 0)>>)>>
            ELSE <<Block("B", <<RefLine("A", 0)>>),
                   Block("D", <<TextLine("x")>>)>>]

InitResolutions ==
    /\ ResIdle
    /\ BlkIdle
    /\ StagingIdle
    /\ unreadable = {}
    /\ files = <<>>
    /\ disk = [p \in Paths |-> OnDisk(<<"x">>)]
    /\ ignore = {}
    /\ statusOut = NoStatus
    /\ op = [name |-> "init", arg |-> ""]
    /\ \E graph \in Graphs :
          /\ docs = GraphDocs(graph)
          /\ call = [name |-> "resolutions", input |-> [graph |-> graph],
                     result |-> [first |-> NoResolution,
                                 second |-> NoResolution,
                                 overlap |-> FALSE]]
    /\ entanglements = add_all(add_all(<<>>, scan_file("a.md")),
                               scan_file("d/b.md"))
    /\ scan_pc = "done"
    /\ futures = {}
    /\ cursor = <<1, 1>>

NextResolutions ==
    \/ \E k \in Resolutions, d \in Paths, n \in {"A", "B", "C", "D"} :
          resolution_start(k, d, n)
    \/ \E k \in Resolutions : resolution_next(k)

SpecResolutions == InitResolutions /\ [][NextResolutions]_vars

\* The resolution of block `name` of `document` carried to its end with
\* no other resolution under way.
RECURSIVE RunToEnd(_)
RunToEnd(st) == IF st.pc # "run" THEN st ELSE RunToEnd(generator_next(st))
Alone(document, name) == RunToEnd(start_resolution(document, name)).out

NamesIn(items) ==
    { items[i].ref_name :
        i \in { i \in 1..Len(items) :
                  items[i].type \in {"NonEntangledCodeBlock",
                                     "EntangledCodeBlock"} } }

RECURSIVE Occurrences(_, _)
Occurrences(children, fuel) ==
    LET refs == ReferencesIn(children)
        Below(i) ==
            Occurrences(
                non_entangled_code_blocks(FirstDefinition(refs[i].ref_name))
                    [refs[i].ref_name], fuel - 1)
        Sum[i \in 0..Len(refs)] ==
            IF i = 0 THEN 0 ELSE Sum[i - 1] + 1 + Below(i)
    IN  IF fuel = 0 THEN 0 ELSE Sum[Len(refs)]

ExpandedIn(items) ==
    Cardinality({ i \in 1..Len(items) :
                    /\ items[i].type = "EntangledCodeBlock" })

\* C28: in a workspace whose reference graph has no cycle, the resolution
\* of the block A that reaches one block twice (through two sibling
\* references, or through B and C of a diamond) has, at its end, expanded
\* every occurrence of every reference, left none unresolved, and reported
\* no cycle.
C28_CycleScopedToPath ==
    LET r == call.result.first
    IN  (/\ r.pc = "done"
         /\ r.root.name = "A"
         /\ call.input.graph \in {"diamond", "siblings"}) =>
            /\ \A i \in 1..Len(r.out) : ~IsUnresolved(r.out[i])
            /\ r.log = <<>>
            /\ ExpandedIn(r.out) =
                  Occurrences(
                      non_entangled_code_blocks(r.root.document)[r.root.name],
                      4)

-----------------------------------------------------------------------------
(* MarkdownDocumentParser.get_entanglements on one prose document *)

\* The elements a prose document is made of here: fenced regions with an
\* id, a target file, an ignore flag, no name at all or no content, and a
\* paragraph.  MaxNodes bounds the length of the document.
MaxNodes == 2
MarkdownNodes ==
    { FencedCode("python", <<Id("A")>>, <<TextLine("x")>>),
      FencedCode("python", <<Id("A")>>, <<TextLine("y"), RefLine("B", 0)>>),
      FencedCode("python", <<Id("A")>>, <<>>),
      FencedCode("python", <<KV("file", "d/b.md")>>, <<TextLine("x")>>),
      FencedCode("python", <<Id("A"), KV("file", "d/b.md")>>,
                 <<TextLine("y")>>),
      FencedCode("python", <<Id("A"), Flag("ignore")>>, <<TextLine("x")>>),
      FencedCode("python", <<KV("file", "d/b.md"), Flag("ignore-markdown")>>,
                 <<TextLine("x")>>),
      FencedCode("python", <<Flag("noweb")>>, <<TextLine("x")>>),
      FencedCode("python", <<Id("B")>>, <<TextLine("x")>>),
      Paragraph }
MarkdownDocuments == UNION { [1..n -> MarkdownNodes] : n \in 1..MaxNodes }

\* parser = MarkdownDocumentParser.parse("a.md"); the generator of
\* parser.get_entanglements() is consumed to its end.
parser_get_entanglements ==
    /\ call.name = ""
    /\ call' = [call EXCEPT
                  !.name = "get_entanglements",
                  !.result = get_entanglements("a.md", call.input, NoBlocks)]
    /\ UNCHANGED <<idxVars, scanVars, resVars, blkVars, stageVars, diffVars,
                   poolVars, permVars>>

InitMarkdown ==
    /\ AtRest
    /\ \E parsed_document \in MarkdownDocuments :
          call = [name |-> "", input |-> parsed_document,
                  result |-> [yielded |-> <<>>, blocks |-> NoBlocks]]

NextMarkdown == parser_get_entanglements

SpecMarkdown == InitMarkdown /\ [][NextMarkdown]_vars

\* What the attributes written after the fence say.
HasAttribute(node, key) ==
    \E i \in 1..Len(node.extra) : node.extra[i].key = key

\* A fenced region with an id or a file attribute, with content, and with
\* neither ignore flag.
NamedBlock(node) ==
    /\ node.type = "FencedCode"
    /\ HasAttribute(node, "id") \/ HasAttribute(node, "file")
    /\ node.children[1] # <<>>
    /\ ~HasAttribute(node, "ignore")
    /\ ~HasAttribute(node, "ignore-markdown")

YieldedAt(i) ==
    \E k \in 1..Len(call.result.yielded) : call.result.yielded[k].index = i

\* C29: the first element of a document is returned as a block exactly
\* when it is a fenced region with an id or a file attribute, with content
\* and without an ignore flag.
C29_NamedBlockSelection ==
    call.name = "get_entanglements" =>
        (YieldedAt(1) <=> NamedBlock(call.input[1]))

\* The positions of the elements the parser takes as blocks, and the name
\* it gives to the one at position i.
Selected == { i \in 1..Len(call.input) : entanglement_filter(call.input[i]) }
NameAt(i) ==
    get_entanglements("a.md", <<call.input[i]>>, NoBlocks)
        .yielded[1].entanglement.name

\* C30: for every name the document defines, one block is returned; it
\* stands at the position of the first definition and is the block, with
\* the tree, that the first definition gives when it is the only one.
C30_FirstDefinitionWins ==
    call.name = "get_entanglements" =>
        \A i \in Selected :
            LET name  == NameAt(i)
                first == CHOOSE j \in Selected :
                            /\ NameAt(j) = name
                            /\ \A h \in Selected : NameAt(h) = name => j <= h
                alone == get_entanglements("a.md", <<call.input[first]>>,
                                           NoBlocks)
                hits  == { k \in 1..Len(call.result.yielded) :
                             call.result.yielded[k].entanglement.name = name }
            IN  /\ Cardinality(hits) = 1
                /\ \A k \in hits :
                      /\ call.result.yielded[k].index = first
                      /\ call.result.yielded[k].entanglement
                            = alone.yielded[1].entanglement
                /\ call.result.blocks[name] = alone.blocks[name]

\* A document that defines one name twice, with different codes, was
\* parsed.
C30_Witness ==
    /\ call.name = "get_entanglements"
    /\ Cardinality(Selected) = 2
    /\ NameAt(1) = NameAt(2)
    /\ call.input[1].children # call.input[2].children

-----------------------------------------------------------------------------
(* NowebBloodhound.run on the code of one prose block *)

\* The code of a block: MaxCodeLines lines at most, each a raw line or a
\* reference line.
MaxCodeLines == 3
NowebLines ==
    { TextLine("x"), TextLine("y"), RefLine("B", 0), RefLine("C", 2) }
NowebCodes == UNION { [1..n -> NowebLines] : n \in 0..MaxCodeLines }

\* noweb_parser = NowebBloodhound(); noweb_parser.run(code)
noweb_parser_run ==
    /\ call.name = ""
    /\ call' = [call EXCEPT !.name = "noweb_run",
                            !.result = noweb_run(call.input)]
    /\ UNCHANGED <<idxVars, scanVars, resVars, blkVars, stageVars, diffVars,
                   poolVars, permVars>>

InitNoweb ==
    /\ AtRest
    /\ \E code \in NowebCodes :
          call = [name |-> "", input |-> code, result |-> NowebStart]

NextNoweb == noweb_parser_run

SpecNoweb == InitNoweb /\ [][NextNoweb]_vars

\* The tree in which every reference line is a child of the root and the
\* raw lines between two references share one RawCodeBlock.
RECURSIVE ReferencesAtRoot(_, _)
ReferencesAtRoot(children, code) ==
    IF code = <<>> THEN children
    ELSE LET line == Head(code)
             last == Len(children)
         IN  ReferencesAtRoot(
                 IF line.kind = "ref"
                 THEN Append(children,
                             NonEntangledCodeBlock(line.ref_name, line.indent))
                 ELSE IF last > 0 /\ children[last].type = "RawCodeBlock"
                 THEN AppendToLast(children, Str(line.text))
                 ELSE Append(children, RawCodeBlock(<<Str(line.text)>>)),
                 Tail(code))

\* The reference lines of a code, in line order.
ReferenceLines(code) == SelectSeq(code, LAMBDA line : line.kind = "ref")

\* C31: every reference line of the code of a block is an unresolved
\* reference directly under the root of the tree, between the raw lines
\* before and after it, and noweb_references holds the same names in the
\* same order.
C31_ReferencesAtRoot ==
    call.name = "noweb_run" =>
        /\ call.result.children = ReferencesAtRoot(<<>>, call.input)
        /\ Len(call.result.noweb_references) = Len(ReferenceLines(call.input))
        /\ \A i \in 1..Len(call.result.noweb_references) :
              call.result.noweb_references[i].reference
                 = ReferenceLines(call.input)[i].ref_name

-----------------------------------------------------------------------------
(* The RawCodeBlocks of a parsed generated file *)

\* No node of the tree has two RawCodeBlocks next to each other.
RECURSIVE NoAdjacentRaw(_)
NoAdjacentRaw(node) ==
    /\ \A i \in 1..(Len(node.children) - 1) :
          ~(/\ node.children[i].type = "RawCodeBlock"
            /\ node.children[i + 1].type = "RawCodeBlock")
    /\ \A i \in 1..Len(node.children) :
          node.children[i].type = "EntangledCodeBlock"
             => NoAdjacentRaw(node.children[i])

\* The RawCodeBlocks of the tree: the names of the blocks around each, and
\* its lines.
RECURSIVE RawSegments(_, _)
RawSegments(node, around) ==
    UNION { IF node.children[i].type = "RawCodeBlock"
            THEN {[around |-> around, lines |-> node.children[i].children]}
            ELSE IF node.children[i].type = "EntangledCodeBlock"
            THEN RawSegments(node.children[i],
                             Append(around, node.children[i].ref_name))
            ELSE {} : i \in 1..Len(node.children) }

\* C32: after the lines of a generated file were read, no node has two
\* adjacent RawCodeBlocks, and, when the markers are balanced, every run of
\* lines is one RawCodeBlock of the block that was open when it was read.
C32_RawCoalescing ==
    call.name = "run" =>
        /\ NoAdjacentRaw(call.result.document)
        /\ Balanced(call.input) =>
              RawSegments(call.result.document, <<>>)
                 = RawSegments(StackParse(call.input), <<>>)

-----------------------------------------------------------------------------
(* EntangledDocumentParser: parse and get_entanglements of a generated file *)

\* The first and the last line of a generated file.  `matches` says whether
\* ENTANGLED_FILE_END matches the line; it does not match the footer that
\* generate_entangled_document writes.
FileHeaderLine(source) == [kind |-> "file-header", source |-> source]
FileFooterLine == [kind |-> "file-footer", matches |-> FALSE]
EmptyLine == TextLine("")

\* text.split("\n") of the files parsed: a first line, the lines of
\* BloodhoundCodes, the footer, and "" after a newline at the end.
GeneratedFiles ==
    { <<first>> \o body \o <<FileFooterLine>> \o rest :
        first \in {FileHeaderLine("a.md"), TextLine("x")},
        body \in BloodhoundCodes,
        rest \in {<<>>, <<EmptyLine>>} }

\* extract_entanglement: None, or the source with the positions of the
\* first and the last line; match.group on a first line that did not match
\* raises.
extract_entanglement(code) ==
    IF Len(code) = 1 /\ code[1] = EmptyLine THEN [kind |-> "None"]
    ELSE LET first_line == 1
             last_line  == IF code[Len(code)] # EmptyLine THEN Len(code)
                           ELSE Len(code) - 1
             match      == code[first_line].kind = "file-header"
             file_end   == /\ code[last_line].kind = "file-footer"
                           /\ code[last_line].matches
         IN  IF ~(match \/ file_end) THEN [kind |-> "None"]
             ELSE IF ~match THEN [kind |-> "AttributeError"]
             ELSE [kind |-> "data", source |-> code[first_line].source,
                   first_line |-> first_line, last_line |-> last_line]

\* EntangledDocumentParser.parse: the tree of the lines between the two
\* markers, with `source` set on it; parsed_document is None for a file
\* that is not a generated one.
entangled_parse(code) ==
    LET entanglement_data == extract_entanglement(code)
    IN  IF entanglement_data.kind = "None"
        THEN [raised |-> "", parsed |-> FALSE, source |-> "",
              children |-> <<>>]
        ELSE IF entanglement_data.kind = "AttributeError"
        THEN [raised |-> "AttributeError", parsed |-> FALSE, source |-> "",
              children |-> <<>>]
        ELSE [raised |-> "", parsed |-> TRUE,
              source |-> entanglement_data.source,
              children |->
                 bloodhound_run(
                    SubSeq(code, entanglement_data.first_line + 1,
                           entanglement_data.last_line - 1)).children]

\* str() of a document or of a block: the lines of its RawCodeBlocks, and
\* one "<<ref_name>>" line for each block under it.
RECURSIVE document_str(_)
document_str(children) ==
    IF children = <<>> THEN <<>>
    ELSE LET child == Head(children)
             here  == IF child.type = "EntangledCodeBlock"
                      THEN <<RefLine(child.ref_name, child.indent)>>
                      ELSE IF child.type = "RawCodeBlock"
                      THEN child.children
                      ELSE <<>>
         IN  here \o document_str(Tail(children))

\* A flatten that stays at the first level of the tree.  It is not the
\* code: it is what "at every nesting depth" is measured against.
flatten_first_level(children) ==
    SelectSeq(children, LAMBDA child : child.type = "EntangledCodeBlock")

\* EntangledDocument.flatten: the blocks of the tree, each before the
\* blocks inside it.
RECURSIVE flatten(_)
flatten(children) ==
    IF children = <<>> THEN <<>>
    ELSE LET child == Head(children)
             here  == IF isinstance(child, "EntangledCodeBlock")
                      THEN <<child>> \o flatten(child.children)
                      ELSE <<>>
         IN  here \o flatten(Tail(children))

\* EntangledDocumentParser.get_entanglements, consumed to its end: the
\* block of the whole file, then one block for each block of flatten().
entangled_get_entanglements(document, parsed_document) ==
    IF ~parsed_document.parsed THEN <<>>
    ELSE LET main ==
                ParsedEntanglementBlock(0,
                    Entanglement(document, parsed_document.source, document,
                                 "", document_str(parsed_document.children),
                                 <<>>),
                    "Entangled")
             references == flatten(parsed_document.children)
             Nested(i) ==
                ParsedEntanglementBlock(i - 1,
                    Entanglement(references[i].ref_name, references[i].source,
                                 "", document,
                                 document_str(references[i].children), <<>>),
                    "Entangled")
         IN  <<main>> \o [i \in 1..Len(references) |-> Nested(i)]

GeneratedPath == "d/b.py"

\* parser = EntangledDocumentParser.parse(file); parser.get_entanglements()
entangled_parser_get_entanglements ==
    /\ call.name = ""
    /\ LET parser == entangled_parse(call.input)
       IN  call' = [call EXCEPT
                      !.name = "get_entanglements",
                      !.result =
                          [parser |-> parser,
                           yielded |->
                              IF parser.raised # "" THEN <<>>
                              ELSE entangled_get_entanglements(GeneratedPath,
                                                               parser)]]
    /\ UNCHANGED <<idxVars, scanVars, resVars, blkVars, stageVars, diffVars,
                   poolVars, permVars>>

InitGenerated ==
    /\ AtRest
    /\ \E code \in GeneratedFiles :
          call = [name |-> "", input |-> code,
                  result |-> [parser |-> entangled_parse(<<EmptyLine>>),
                              yielded |-> <<>>]]

NextGenerated == entangled_parser_get_entanglements

SpecGenerated == InitGenerated /\ [][NextGenerated]_vars

\* The positions of the blocks of a tree, at every depth.
RECURSIVE BlockPositions(_, _)
BlockPositions(node, at) ==
    UNION { IF node.children[i].type = "EntangledCodeBlock"
            THEN {Append(at, i)}
                 \cup BlockPositions(node.children[i], Append(at, i))
            ELSE {} : i \in 1..Len(node.children) }

\* C33: for a file whose first line is a whole-file header, the parser
\* yields first one block named after the file with the file as its target
\* file, then as many blocks as the tree has blocks at all depths, each
\* with the name and the source of a block of the tree and with the file as
\* its indirect target file.
C33_OneBlockPerMarker ==
    (call.name = "get_entanglements"
        /\ call.input[1].kind = "file-header") =>
        LET yielded == call.result.yielded
            tree    == call.result.parser
            blocks  == BlockPositions(tree, <<>>)
        IN  /\ call.result.parser.raised = ""
            /\ Len(yielded) = 1 + Cardinality(blocks)
            /\ yielded[1].entanglement.name = GeneratedPath
            /\ yielded[1].entanglement.target_file = GeneratedPath
            /\ \A k \in 2..Len(yielded) :
                  /\ yielded[k].entanglement.target_file = ""
                  /\ yielded[k].entanglement.indirect_target_file
                        = GeneratedPath
            /\ \A p \in blocks :
                  \E k \in 2..Len(yielded) :
                     /\ yielded[k].entanglement.name = GetAt(tree, p).ref_name
                     /\ yielded[k].entanglement.file = GetAt(tree, p).source

\* A file with a block inside a block was parsed.
C33_Witness ==
    /\ call.name = "get_entanglements"
    /\ call.input[1].kind = "file-header"
    /\ \E p \in BlockPositions(call.result.parser, <<>>) : Len(p) = 2
    /\ Len(call.result.yielded) >= 3

-----------------------------------------------------------------------------
(* The text EntangledDocument.entangled gives *)

\* C34: the rendering of any resolved tree, also one that holds unresolved
\* references, is a text whose first and last lines are the whole-file
\* header and footer, with no other whole-file marker in it, and in which
\* the block headers and footers between them are balanced.
C34_RenderWellNested ==
    res_pc = "rendered" =>
        /\ rendered.kind = "text"
        /\ LET lines == rendered.lines
               last  == Len(lines)
           IN  /\ last >= 2
               /\ lines[1].kind = "file-header"
               /\ lines[last].kind = "file-footer"
               /\ \A i \in 2..(last - 1) :
                     lines[i].kind \notin {"file-header", "file-footer"}
               /\ Balanced(SubSeq(lines, 2, last - 1))

-----------------------------------------------------------------------------
(* prep on a workspace whose blocks refer to each other *)

\* The scanned workspace of InitReadOnly: A of a.md refers to B of d/b.md,
\* and B may refer back.  The user deletes files and runs prep.
InitCascade == InitReadOnly

NextCascade ==
    \/ \E f \in Paths : delete_document(f)
    \/ \E t \in Targets, d \in Descriptions : prep(t, d)
    \/ tick

SpecCascade == InitCascade /\ [][NextCascade]_vars

\* The files that define a block whose code refers to the block `name`.
FilesReferring(name) ==
    { entanglements[j].file :
        j \in { j \in 1..Len(entanglements) :
                  name \in OutgoingNames(entanglements[j]) } }

\* C35: after prep, every file reported deleted is staged for removal from
\* the index, and for every block it defined an UPDATE record is staged for
\* every other file that defines a block referring to it.
C35_DeletedBlockUpdatesReferrers ==
    cmdOut.name = "prep" =>
        \A file \in ReportedDeleted :
            /\ \E i \in 1..Len(staging_context.files_to_unindex) :
                  staging_context.files_to_unindex[i] = file
            /\ \A i \in DefinedIn(file) :
                  \A other \in FilesReferring(entanglements[i].name)
                                  \ ReportedDeleted :
                      Staged("UPDATE", other)

-----------------------------------------------------------------------------
(* prep on a Modified or Created block that has a target file *)

\* The files prep found modified, and the blocks get_block_status reports
\* Created or Modified in one of them, as records of the parsed document.
ReportedModified ==
    { PrepStatus[i].filename :
        i \in { i \in 1..Len(PrepStatus) : PrepStatus[i].status = "modified" } }

ChangedBlocks(file) ==
    LET status == get_block_status_result(entanglements, file).yielded
        parsed == scan_file(file)
    IN  { parsed[i].entanglement :
            i \in { i \in 1..Len(parsed) :
                      /\ i <= Len(status)
                      /\ status[i].status \in {"created", "modified"} } }

\* C36: after prep, a Created or Modified block whose target file is not on
\* disk has one CREATE record staged for that target file, and the command
\* raised nothing.
C36_MissingTargetIsCreated ==
    cmdOut.name = "prep" =>
        \A file \in ReportedModified :
            \A entanglement \in ChangedBlocks(file) :
                (/\ entanglement.target_file # ""
                 /\ ~disk[entanglement.target_file].exists)
                    => /\ cmdOut.raised = ""
                       /\ Staged("CREATE", entanglement.target_file)

-----------------------------------------------------------------------------
(* EntangledDocument.remove_child_by_ref_name *)

\* list.remove(child): the list without its first element equal to child.
list_remove(children, child) ==
    LET at == CHOOSE i \in 1..Len(children) :
                  /\ children[i] = child
                  /\ \A j \in 1..(i - 1) : children[j] # child
    IN  SubSeq(children, 1, at - 1) \o SubSeq(children, at + 1, Len(children))

\* for child in self.children, from the position `i` of the list iterator:
\* a removal shortens the list the iterator walks, and the iterator moves
\* on by one all the same.  A RawCodeBlock holds lines of text, which have
\* no method remove_child_by_ref_name.
RECURSIVE remove_child_loop(_, _, _)
remove_child_loop(children, i, ref_name) ==
    IF i > Len(children) THEN [children |-> children, raised |-> ""]
    ELSE LET child == children[i]
         IN  IF isinstance(child, "EntangledCodeBlock")
                /\ child.ref_name = ref_name
             THEN remove_child_loop(list_remove(children, child), i + 1,
                                    ref_name)
             ELSE IF child.type = "RawCodeBlock"
             THEN IF child.children = <<>>
                  THEN remove_child_loop(children, i + 1, ref_name)
                  ELSE [children |-> children, raised |-> "AttributeError"]
             ELSE LET r == remove_child_loop(child.children, 1, ref_name)
                      kept == [children EXCEPT ![i].children = r.children]
                  IN  IF r.raised # ""
                      THEN [children |-> kept, raised |-> r.raised]
                      ELSE remove_child_loop(kept, i + 1, ref_name)

RemovedNames == {"A", "B"}

\* document = parser.run(code); document.remove_child_by_ref_name(ref_name)
remove_child_by_ref_name ==
    /\ call.name = ""
    /\ call' = [call EXCEPT
                  !.name = "remove_child_by_ref_name",
                  !.result = remove_child_loop(call.input.children, 1,
                                               call.input.ref_name)]
    /\ UNCHANGED <<idxVars, scanVars, resVars, blkVars, stageVars, diffVars,
                   poolVars, permVars>>

InitRemove ==
    /\ AtRest
    /\ \E code \in BloodhoundCodes, ref_name \in RemovedNames :
          call = [name |-> "",
                  input |-> [children |-> bloodhound_run(code).children,
                             ref_name |-> ref_name],
                  result |-> [children |-> <<>>, raised |-> ""]]

NextRemove == remove_child_by_ref_name

SpecRemove == InitRemove /\ [][NextRemove]_vars

\* The tree without the blocks named ref_name, at every depth, the rest in
\* its order.
RECURSIVE Pruned(_, _)
Pruned(children, ref_name) ==
    IF children = <<>> THEN <<>>
    ELSE LET child == Head(children)
             rest  == Pruned(Tail(children), ref_name)
         IN  IF isinstance(child, "EntangledCodeBlock")
             THEN IF child.ref_name = ref_name THEN rest
                  ELSE <<[child EXCEPT
                            !.children = Pruned(@, ref_name)]>> \o rest
             ELSE <<child>> \o rest

\* C37: on a tree that holds a block named n, remove_child_by_ref_name(n)
\* returns and leaves the tree without any block named n at any depth,
\* every other block and raw segment in its original order.
C37_RemovesEveryBlockNamed ==
    (/\ call.name = "remove_child_by_ref_name"
     /\ Pruned(call.input.children, call.input.ref_name)
           # call.input.children) =>
        /\ call.result.raised = ""
        /\ call.result.children
              = Pruned(call.input.children, call.input.ref_name)

-----------------------------------------------------------------------------
(* scan_new_workspace: the order in which the futures are collected *)

\* The index of a scan that collects the futures in the order they were
\* submitted in, the reference pass run to its end.
RECURSIVE CollectedInOrder(_, _)
CollectedInOrder(es, submitted) ==
    IF submitted = <<>> THEN es
    ELSE CollectedInOrder(add_all(es, scan_file(Head(submitted))),
                          Tail(submitted))

ScannedInOrder ==
    scan_references_result(CollectedInOrder(<<>>, get_target_files(".")),
                           1, 1)

\* The records of an index as a set: the name, the defining file and the
\* incoming references of each.
RecordsOf(es) ==
    { [name |-> es[i].name, file |-> es[i].file,
       referenced_by |-> { es[i].referenced_by[j] :
                              j \in 1..Len(es[i].referenced_by) }] :
        i \in 1..Len(es) }

\* C38: when scan_new_workspace has ended, the index holds the records, with
\* the defining files and incoming references, a scan that collects the
\* futures in submission order leaves, whatever order they completed in.
C38_CompletionOrderIrrelevant ==
    scan_pc = "done" => RecordsOf(entanglements) = RecordsOf(ScannedInOrder)

-----------------------------------------------------------------------------
(* get_related_target_files: the length of the traversal *)

\* A scanned workspace in which A of a.md refers to B of d/b.md once or
\* several times, and B may refer back to A.
RelatedCodesA ==
    { <<RefLine("B", 0)>>,
      <<TextLine("x"), RefLine("B", 2)>>,
      <<RefLine("B", 0), RefLine("B", 0)>>,
      <<RefLine("B", 0), RefLine("B", 0), RefLine("B", 0)>> }
RelatedCodesB ==
    { <<TextLine("x")>>,
      <<RefLine("A", 0)>>,
      <<RefLine("A", 0), RefLine("A", 2)>> }

InitRelated ==
    /\ ResIdle
    /\ BlkIdle
    /\ StageIdle
    /\ disk = [p \in Paths |-> OnDisk(<<"x">>)]
    /\ ignore = {}
    /\ \E ca \in RelatedCodesA, cb \in RelatedCodesB :
          docs = [p \in Paths |->
                    IF p = "a.md"
                    THEN <<FencedCode("python", <<Id("A")>>, ca)>>
                    ELSE <<FencedCode("python", <<Id("B")>>, cb)>>]
    /\ files = add_files(<<>>, get_target_files("."))
    /\ entanglements =
          scan_references_result(
              add_all(add_all(<<>>, scan_file("a.md")), scan_file("d/b.md")),
              1, 1)
    /\ statusOut = NoStatus
    /\ op = [name |-> "init", arg |-> ""]
    /\ scan_pc = "done"
    /\ futures = {}
    /\ cursor = <<1, 1>>

NextRelated ==
    \E i \in 1..MaxEnts, has_name \in BOOLEAN :
        get_related_target_files(i, has_name)

SpecRelated == InitRelated /\ [][NextRelated]_vars

NoDuplicates(list) ==
    \A i, j \in 1..Len(list) : list[i] = list[j] => i = j

\* C39: on every record of every index state, get_related_target_files
\* comes to its end without raising, processes no reference twice and
\* stops after at most as many rounds as there are indexed blocks.
C39_TraversalBounded ==
    \A index \in 1..Len(entanglements), has_name \in BOOLEAN :
        LET r == get_related_target_files_result(entanglements, index,
                                                 has_name)
        IN  /\ r.raised = ""
            /\ NoDuplicates(r.processed)
            /\ Len(r.processed) <= Len(entanglements)

-----------------------------------------------------------------------------
(* MarkdownDocumentParser.get_entanglements called twice on one parser *)

NothingYielded == [yielded |-> <<>>, blocks |-> NoBlocks]

\* parser = MarkdownDocumentParser.parse("a.md"); the first
\* list(parser.get_entanglements()), on the non_entangled_code_blocks
\* __init__ left empty.
get_entanglements_first ==
    /\ call.name = ""
    /\ call' = [call EXCEPT
                  !.name = "first",
                  !.result.first =
                      get_entanglements("a.md", call.input, NoBlocks)]
    /\ UNCHANGED <<idxVars, scanVars, resVars, blkVars, stageVars, diffVars,
                   poolVars, permVars>>

\* The second list(parser.get_entanglements()) on the same parser:
\* non_entangled_code_blocks is what the first call left in it.
get_entanglements_second ==
    /\ call.name = "first"
    /\ call' = [call EXCEPT
                  !.name = "second",
                  !.result.second =
                      get_entanglements("a.md", call.input,
                                        call.result.first.blocks)]
    /\ UNCHANGED <<idxVars, scanVars, resVars, blkVars, stageVars, diffVars,
                   poolVars, permVars>>

InitRepeat ==
    /\ AtRest
    /\ \E parsed_document \in MarkdownDocuments :
          call = [name |-> "", input |-> parsed_document,
                  result |-> [first |-> NothingYielded,
                              second |-> NothingYielded]]

NextRepeat ==
    \/ get_entanglements_first
    \/ get_entanglements_second

SpecRepeat == InitRepeat /\ [][NextRepeat]_vars

\* C40: the second call of get_entanglements on a parsed document yields
\* the sequence of blocks the first call yielded.
C40_GetEntanglementsRepeatable ==
    call.name = "second" =>
        call.result.second.yielded = call.result.first.yielded

====
